---- MODULE Spec2Model ----
(***************************************************************************)
(* Model of the DCC tester firmware core: the command-station controller   *)
(* (CommandStationThread, CommandStation_Start/Stop), the timer-update     *)
(* ISR with its zero-bit override, and the flash-backed parameter manager. *)
(***************************************************************************)
EXTENDS Integers, Naturals, Sequences, FiniteSets, TLC

(***************************************************************************)
(* Bounds of the model                                                     *)
(***************************************************************************)
MaxLog == 4
MaxCount == 2
MaxQueue == 2

(***************************************************************************)
(* Tasks that call into the command station: the RPC server task and the   *)
(* CLI task.                                                               *)
(***************************************************************************)
Callers == {"rpc", "cli"}

Loops == 0 .. 3

\* the loop argument a task can pass: the RPC handler accepts 0..3, the CLI
\* passes true or false
CallerLoops(c) == IF c = "cli" THEN {0, 1} ELSE Loops

PayloadHalfwords == 7

(***************************************************************************)
(* 16-bit and 8-bit helpers.  A 32-bit word is the pair <<low halfword,    *)
(* high halfword>>, the order in which the halfwords lie in flash.         *)
(***************************************************************************)
Byte == 0 .. 255

RECURSIVE XorBits(_, _, _)
XorBits(a, b, n) ==
  IF n = 0 THEN 0
  ELSE (((a % 2) + (b % 2)) % 2) + (2 * XorBits(a \div 2, b \div 2, n - 1))

Xor16(a, b) == XorBits(a, b, 16)

Xor32(x, y) == <<Xor16(x[1], y[1]), Xor16(x[2], y[2])>>

Shr32(x, n) ==
  <<(x[1] \div (2 ^ n)) + ((x[2] % (2 ^ n)) * (2 ^ (16 - n))), x[2] \div (2 ^ n)>>

Not32(x) == <<65535 - x[1], 65535 - x[2]>>

LoByte(h) == h % 256
HiByte(h) == h \div 256
Halfword(lo, hi) == lo + (256 * hi)

VARIABLES
  commandStationRunning,  \* static bool commandStationRunning
  commandStationLoop,     \* static uint8_t commandStationLoop
  semCount,               \* token count of commandStationStart_sem (max 1)
  tpc,                    \* position of CommandStationThread
  loopStep,               \* index inside one pass of a test loop / burst
  cpc,                    \* position of each calling task
  carg,                   \* argument of the call a task is executing
  cres,                   \* value returned by the call a task made last
  callLog,                \* Start/Stop calls since boot: [who, op, arg, ret]
  BR_ENABLE,              \* bridge enable pin
  BIDIR_EN,               \* BiDi receiver enable pin
  timIT,                  \* TIM2 update interrupt enabled
  timPWM,                 \* TIM2 PWM channel started
  customPacket,           \* static dcc::Packet customPacket
  customPacketLoaded,
  customPacketTrigger,
  customPacketCount,
  customPacketDelay,
  zerobitOverrideMask,
  zerobitDeltaP,
  zerobitDeltaN,
  dac_value,
  trigger_first_bit,
  tlocal,                 \* locals of CommandStationThread read from the store
  engineCfg,              \* configuration given to command_station.init
  txq                     \* packets handed to the timing engine

csvars == <<commandStationRunning, commandStationLoop, semCount, tpc, loopStep,
            cpc, carg, cres, callLog, BR_ENABLE, BIDIR_EN, timIT, timPWM,
            customPacket, customPacketLoaded, customPacketTrigger,
            customPacketCount, customPacketDelay, zerobitOverrideMask,
            zerobitDeltaP, zerobitDeltaN, dac_value, trigger_first_bit,
            tlocal, engineCfg, txq>>

VARIABLES
  g_paramData,            \* RAM shadow, the bytes of the g_paramData union
  g_initialized,
  g_modified,
  g_flashStorage,         \* static staging buffer, as halfwords
  flash,                  \* the parameter sector, as halfwords
  pmpc,                   \* "idle", or "program" inside save()
  saveIdx,                \* loop index i of the programming loop of save()
  pmret,                  \* <<operation, return value>> of the last call
  pm_zerobit              \* override fields of the parameter store

pmvars == <<g_paramData, g_initialized, g_modified, g_flashStorage, flash,
            pmpc, saveIdx, pmret, pm_zerobit>>

VARIABLES
  engFrame,               \* bits of the framed packet the engine is emitting
  engHalf,                \* number of half-bits of engFrame already emitted
  bitCountMask,           \* static uint64_t bitCountMask, as its set bits
  currentPhaseIsP,
  trackN,                 \* track output N
  trackP,                 \* track output P
  scopePin,
  ARR,                    \* htim2.Instance->ARR
  isrNominal,             \* value transmit() returned in the last ISR
  isrBit                  \* index of the bit transmit() emitted in the last ISR

isrvars == <<engFrame, engHalf, bitCountMask, currentPhaseIsP, trackN, trackP,
             scopePin, ARR, isrNominal, isrBit>>

VARIABLES
  table,                  \* RpcServer::table[0 .. count-1]; count is its length
  regret,                 \* value the last register_method call returned
  rpcpc,                  \* position of RpcServerThread
  rpcReq,                 \* the request string being handled, as parsed
  rpcResp,                \* the response handle() returned
  rpcLog                  \* requests received, handlers invoked, responses
                          \* written to the transport, resets, in order

VARIABLES
  usb,                    \* USB CDC receive side: buffer_pool, current_buf,
                          \* rx_index, rpc_rxqueue; what the host sent and
                          \* what the RPC task took from the queue
  adc,                    \* analog manager: adc_mutex and its callers
  dec,                    \* decoder controller: decoderRunning,
                          \* decoderStart_sem, DecoderThread
  loadArg                 \* CommandStation_LoadCustomPacket in progress, per
                          \* caller: its bytes argument and loop index i

auxvars == <<usb, adc, dec, loadArg>>

rpcvars == <<table, regret, rpcpc, rpcReq, rpcResp, rpcLog, auxvars>>

vars == <<csvars, pmvars, isrvars, rpcvars>>

(***************************************************************************)
(* Parameter data: the leading bytes of ParameterData_t, at the offsets    *)
(* the struct layout gives them.                                           *)
(***************************************************************************)
PayloadBytes == 2 * PayloadHalfwords

OFF_TRACK_VOLTAGE == 0
OFF_TRACK_CURRENT_LIMIT == 2
OFF_PREAMBLE_BITS == 4
OFF_BIT1_DURATION == 5
OFF_BIT0_DURATION == 6
OFF_BIDI_ENABLE == 7
OFF_TRIGGER_FIRST_BIT == 8
OFF_SHORT_CIRCUIT == 10
OFF_BIDI_DAC == 12

DEFAULT_DCC_TRACK_VOLTAGE == 15000
DEFAULT_DCC_TRACK_CURRENT_LIMIT == 3000
DEFAULT_DCC_PREAMBLE_BITS == 17
DEFAULT_DCC_SHORT_CIRCUIT_THRESHOLD == 5000
DEFAULT_DCC_BIT1_DURATION == 58
DEFAULT_DCC_BIT0_DURATION == 100
DEFAULT_DCC_BIDI_ENABLE == 0
DEFAULT_BIDIR_THRESHOLD == 466
DEFAULT_DCC_BIDI_DAC == DEFAULT_BIDIR_THRESHOLD
DEFAULT_DCC_TRIGGER_FIRST_BIT == 0

\* store of a byte / of a little-endian halfword at byte offset off
PutU8(d, off, v) == [d EXCEPT ![off + 1] = v % 256]
PutU16(d, off, v) ==
  [d EXCEPT ![off + 1] = LoByte(v % 65536), ![off + 2] = HiByte(v % 65536)]
GetU8(d, off) == d[off + 1]
GetU16(d, off) == Halfword(d[off + 1], d[off + 2])

ZeroData == [i \in 1 .. PayloadBytes |-> 0]

\* the values load_defaults() leaves in g_paramData
DefaultData ==
  LET d1 == PutU16(ZeroData, OFF_TRACK_VOLTAGE, DEFAULT_DCC_TRACK_VOLTAGE)
      d2 == PutU16(d1, OFF_TRACK_CURRENT_LIMIT, DEFAULT_DCC_TRACK_CURRENT_LIMIT)
      d3 == PutU8(d2, OFF_PREAMBLE_BITS, DEFAULT_DCC_PREAMBLE_BITS)
      d4 == PutU8(d3, OFF_BIT1_DURATION, DEFAULT_DCC_BIT1_DURATION)
      d5 == PutU8(d4, OFF_BIT0_DURATION, DEFAULT_DCC_BIT0_DURATION)
      d6 == PutU8(d5, OFF_BIDI_ENABLE, DEFAULT_DCC_BIDI_ENABLE)
      d7 == PutU8(d6, OFF_TRIGGER_FIRST_BIT, DEFAULT_DCC_TRIGGER_FIRST_BIT)
      d8 == PutU16(d7, OFF_SHORT_CIRCUIT, DEFAULT_DCC_SHORT_CIRCUIT_THRESHOLD)
  IN  PutU16(d8, OFF_BIDI_DAC, DEFAULT_DCC_BIDI_DAC)

\* get_dcc_*: the value written through the out pointer, or the caller's old
\* value when the manager is not initialised (the getter returns -1)
get_dcc_preamble_bits(old) ==
  IF g_initialized THEN GetU8(g_paramData, OFF_PREAMBLE_BITS) ELSE old
get_dcc_bit1_duration(old) ==
  IF g_initialized THEN GetU8(g_paramData, OFF_BIT1_DURATION) ELSE old
get_dcc_bit0_duration(old) ==
  IF g_initialized THEN GetU8(g_paramData, OFF_BIT0_DURATION) ELSE old
get_dcc_bidi_enable(old) ==
  IF g_initialized THEN GetU8(g_paramData, OFF_BIDI_ENABLE) ELSE old
get_dcc_bidi_dac(old) ==
  IF g_initialized THEN GetU16(g_paramData, OFF_BIDI_DAC) ELSE old
get_dcc_trigger_first_bit(old) ==
  IF g_initialized THEN GetU8(g_paramData, OFF_TRIGGER_FIRST_BIT) ELSE old
get_dcc_zerobit_override_mask(old) ==
  IF g_initialized THEN pm_zerobit.mask ELSE old
get_dcc_zerobit_deltaP(old) ==
  IF g_initialized THEN pm_zerobit.deltaP ELSE old
get_dcc_zerobit_deltaN(old) ==
  IF g_initialized THEN pm_zerobit.deltaN ELSE old

(***************************************************************************)
(* Packets.  A packet is the sequence of its bytes.                        *)
(***************************************************************************)
XorFold(p) ==
  LET RECURSIVE F(_)
      F(i) == IF i = 0 THEN 0 ELSE XorBits(F(i - 1), p[i], 8)
  IN  F(Len(p))

\* dcc::make_function_group_f4_f0_packet(addr, state), short address
make_function_group_f4_f0_packet(addr, state) ==
  LET d == 128 + (state % 32) IN <<addr, d, XorBits(addr, d, 8)>>

\* dcc::make_advanced_operations_speed_packet(addr, rggggggg), short address
make_advanced_operations_speed_packet(addr, speed) ==
  <<addr, 63, speed % 256, XorBits(XorBits(addr, 63, 8), speed % 256, 8)>>

\* packets a caller may load as the custom packet
CustomPackets == {<<3, 63, 42, 22>>}

\* loop1: the six packets of one pass (lines 672-714)
Loop1Packets ==
  << make_function_group_f4_f0_packet(3, 1),
     make_advanced_operations_speed_packet(3, 128 + 42),
     make_advanced_operations_speed_packet(3, 128 + 0),
     make_function_group_f4_f0_packet(3, 0),
     make_advanced_operations_speed_packet(3, 42),
     make_advanced_operations_speed_packet(3, 0) >>

\* loop2: the four packets of one pass (lines 719-761)
Loop2Packets ==
  << make_function_group_f4_f0_packet(3, 17),
     make_advanced_operations_speed_packet(3, 128 + 60),
     make_advanced_operations_speed_packet(0, 128 + 1),
     make_function_group_f4_f0_packet(3, 0) >>

\* loop3: four ramps of RampSteps packets each (lines 766-810)
RampSteps == 13
Loop3Len == 4 * RampSteps
Loop3Packet(s) ==
  LET r == s \div RampSteps
      j == s % RampSteps
      speed == IF r \in {0, 2} THEN 10 * j ELSE 126 - (10 * j)
  IN  make_advanced_operations_speed_packet(10,
        IF r \in {0, 1} THEN 128 + speed ELSE speed)

\* command_station.packet(p): the engine's bounded queue drops when full
EnginePacket(q, p) == IF Len(q) < MaxQueue THEN Append(q, p) ELSE q

(***************************************************************************)
(* Override values a caller may set.  The 64-bit mask is the set of its    *)
(* set bit positions.                                                      *)
(***************************************************************************)
MaskBits == 0 .. 63
OverrideMasks == {{}, {18}}
OverrideDeltas == {0, 10, -10}

(***************************************************************************)
(* Start semaphore (osSemaphoreNew(1, 0)): a release hands the token to a  *)
(* task blocked in osSemaphoreAcquire, else raises the count up to 1.      *)
(* tb and cb are tpc and cpc after the releasing task's own move.          *)
(***************************************************************************)
osSemaphoreRelease(tb, cb) ==
  LET W == (IF tb = "blocked" THEN {"thread"} ELSE {}) \cup
           {w \in Callers : cb[w] = "stop_blocked"}
  IN  IF W = {}
      THEN /\ semCount' = IF semCount < 1 THEN semCount + 1 ELSE semCount
           /\ tpc' = tb
           /\ cpc' = cb
      ELSE \E w \in W :
             /\ semCount' = semCount
             /\ IF w = "thread"
                THEN tpc' = "load" /\ cpc' = cb
                ELSE tpc' = tb /\ cpc' = [cb EXCEPT ![w] = "stop_finish"]

LogCall(c, op, arg, ret) ==
  Append(callLog, [who |-> c, op |-> op, arg |-> arg, ret |-> ret])

\* a task may enter Start or Stop while the log has room for the call
CallAdmitted ==
  Len(callLog) + Cardinality({w \in Callers : cpc[w] # "idle"}) < MaxLog

(***************************************************************************)
(* CommandStation_Start(loop), lines 836-847; the return value is the one  *)
(* command_station.h documents: true if started, false if already running. *)
(***************************************************************************)
CommandStation_Start_Check(c, loop) ==
  /\ cpc[c] = "idle"
  /\ CallAdmitted
  /\ IF ~commandStationRunning
     THEN /\ cpc' = [cpc EXCEPT ![c] = "start_body"]
          /\ carg' = [carg EXCEPT ![c] = loop]
          /\ UNCHANGED <<cres, callLog>>
     ELSE /\ cres' = [cres EXCEPT ![c] = FALSE]
          /\ callLog' = LogCall(c, "start", loop, FALSE)
          /\ UNCHANGED <<cpc, carg>>
  /\ UNCHANGED <<rpcvars, pmvars, isrvars, commandStationRunning, commandStationLoop, semCount, tpc,
                 loopStep, BR_ENABLE, BIDIR_EN, timIT, timPWM, customPacket,
                 customPacketLoaded, customPacketTrigger, customPacketCount,
                 customPacketDelay, zerobitOverrideMask, zerobitDeltaP,
                 zerobitDeltaN, dac_value, trigger_first_bit, tlocal,
                 engineCfg, txq>>

CommandStation_Start_Body(c) ==
  /\ cpc[c] = "start_body"
  /\ commandStationLoop' = carg[c]
  /\ BR_ENABLE' = TRUE
  /\ osSemaphoreRelease(tpc, [cpc EXCEPT ![c] = "idle"])
  /\ cres' = [cres EXCEPT ![c] = TRUE]
  /\ callLog' = LogCall(c, "start", carg[c], TRUE)
  /\ carg' = [carg EXCEPT ![c] = 0]
  /\ UNCHANGED <<rpcvars, pmvars, isrvars, commandStationRunning, loopStep, BIDIR_EN, timIT,
                 timPWM, customPacket, customPacketLoaded, customPacketTrigger,
                 customPacketCount, customPacketDelay, zerobitOverrideMask,
                 zerobitDeltaP, zerobitDeltaN, dac_value, trigger_first_bit,
                 tlocal, engineCfg, txq>>

(***************************************************************************)
(* CommandStation_Stop(), lines 873-885; returns true if stopped, false if *)
(* not running (command_station.h).                                        *)
(***************************************************************************)
CommandStation_Stop_Check(c) ==
  /\ cpc[c] = "idle"
  /\ CallAdmitted
  /\ IF commandStationRunning
     THEN /\ cpc' = [cpc EXCEPT ![c] = "stop_clear"]
          /\ UNCHANGED <<cres, callLog>>
     ELSE /\ cres' = [cres EXCEPT ![c] = FALSE]
          /\ callLog' = LogCall(c, "stop", 0, FALSE)
          /\ UNCHANGED cpc
  /\ UNCHANGED <<rpcvars, pmvars, isrvars, commandStationRunning, commandStationLoop, semCount, tpc,
                 loopStep, carg, BR_ENABLE, BIDIR_EN, timIT, timPWM,
                 customPacket, customPacketLoaded, customPacketTrigger,
                 customPacketCount, customPacketDelay, zerobitOverrideMask,
                 zerobitDeltaP, zerobitDeltaN, dac_value, trigger_first_bit,
                 tlocal, engineCfg, txq>>

CommandStation_Stop_Clear(c) ==
  /\ cpc[c] = "stop_clear"
  /\ commandStationRunning' = FALSE
  /\ cpc' = [cpc EXCEPT ![c] = "stop_acquire"]
  /\ UNCHANGED <<rpcvars, pmvars, isrvars, commandStationLoop, semCount, tpc, loopStep, carg, cres,
                 callLog, BR_ENABLE, BIDIR_EN, timIT, timPWM, customPacket,
                 customPacketLoaded, customPacketTrigger, customPacketCount,
                 customPacketDelay, zerobitOverrideMask, zerobitDeltaP,
                 zerobitDeltaN, dac_value, trigger_first_bit, tlocal,
                 engineCfg, txq>>

\* osSemaphoreAcquire(commandStationStart_sem, osWaitForever), line 878
CommandStation_Stop_Acquire(c) ==
  /\ cpc[c] = "stop_acquire"
  /\ IF semCount > 0
     THEN /\ semCount' = semCount - 1
          /\ cpc' = [cpc EXCEPT ![c] = "stop_finish"]
     ELSE /\ semCount' = semCount
          /\ cpc' = [cpc EXCEPT ![c] = "stop_blocked"]
  /\ UNCHANGED <<rpcvars, pmvars, isrvars, commandStationRunning, commandStationLoop, tpc, loopStep,
                 carg, cres, callLog, BR_ENABLE, BIDIR_EN, timIT, timPWM,
                 customPacket, customPacketLoaded, customPacketTrigger,
                 customPacketCount, customPacketDelay, zerobitOverrideMask,
                 zerobitDeltaP, zerobitDeltaN, dac_value, trigger_first_bit,
                 tlocal, engineCfg, txq>>

CommandStation_Stop_Finish(c) ==
  /\ cpc[c] = "stop_finish"
  /\ BR_ENABLE' = FALSE
  /\ cres' = [cres EXCEPT ![c] = TRUE]
  /\ callLog' = LogCall(c, "stop", 0, TRUE)
  /\ cpc' = [cpc EXCEPT ![c] = "idle"]
  /\ UNCHANGED <<rpcvars, pmvars, isrvars, commandStationRunning, commandStationLoop, semCount, tpc,
                 loopStep, carg, BIDIR_EN, timIT, timPWM, customPacket,
                 customPacketLoaded, customPacketTrigger, customPacketCount,
                 customPacketDelay, zerobitOverrideMask, zerobitDeltaP,
                 zerobitDeltaN, dac_value, trigger_first_bit, tlocal,
                 engineCfg, txq>>

(***************************************************************************)
(* CommandStation_LoadCustomPacket, CommandStation_TriggerTransmit         *)
(* (lines 849-870) and the RAM-only override setters of command_station.h. *)
(***************************************************************************)
CommandStation_LoadCustomPacket(c, bytes) ==
  /\ cpc[c] = "idle"
  /\ customPacket' = bytes
  /\ customPacketLoaded' = TRUE
  /\ customPacketTrigger' = FALSE
  /\ UNCHANGED <<rpcvars, pmvars, isrvars, commandStationRunning, commandStationLoop, semCount, tpc,
                 loopStep, cpc, carg, cres, callLog, BR_ENABLE, BIDIR_EN,
                 timIT, timPWM, customPacketCount, customPacketDelay,
                 zerobitOverrideMask, zerobitDeltaP, zerobitDeltaN, dac_value,
                 trigger_first_bit, tlocal, engineCfg, txq>>

CommandStation_TriggerTransmit(c, count, delay_ms) ==
  /\ cpc[c] = "idle"
  /\ customPacketLoaded
  /\ customPacketCount' = IF count > 0 THEN count ELSE 1
  /\ customPacketDelay' = delay_ms
  /\ customPacketTrigger' = TRUE
  /\ UNCHANGED <<rpcvars, pmvars, isrvars, commandStationRunning, commandStationLoop, semCount, tpc,
                 loopStep, cpc, carg, cres, callLog, BR_ENABLE, BIDIR_EN,
                 timIT, timPWM, customPacket, customPacketLoaded,
                 zerobitOverrideMask, zerobitDeltaP, zerobitDeltaN, dac_value,
                 trigger_first_bit, tlocal, engineCfg, txq>>

CommandStation_SetZerobitOverrideMask(c, mask) ==
  /\ cpc[c] = "idle"
  /\ zerobitOverrideMask' = mask
  /\ UNCHANGED <<rpcvars, pmvars, isrvars, commandStationRunning, commandStationLoop, semCount, tpc,
                 loopStep, cpc, carg, cres, callLog, BR_ENABLE, BIDIR_EN,
                 timIT, timPWM, customPacket, customPacketLoaded,
                 customPacketTrigger, customPacketCount, customPacketDelay,
                 zerobitDeltaP, zerobitDeltaN, dac_value, trigger_first_bit,
                 tlocal, engineCfg, txq>>

CommandStation_SetZerobitDeltaP(c, delta) ==
  /\ cpc[c] = "idle"
  /\ zerobitDeltaP' = delta
  /\ UNCHANGED <<rpcvars, pmvars, isrvars, commandStationRunning, commandStationLoop, semCount, tpc,
                 loopStep, cpc, carg, cres, callLog, BR_ENABLE, BIDIR_EN,
                 timIT, timPWM, customPacket, customPacketLoaded,
                 customPacketTrigger, customPacketCount, customPacketDelay,
                 zerobitOverrideMask, zerobitDeltaN, dac_value,
                 trigger_first_bit, tlocal, engineCfg, txq>>

CommandStation_SetZerobitDeltaN(c, delta) ==
  /\ cpc[c] = "idle"
  /\ zerobitDeltaN' = delta
  /\ UNCHANGED <<rpcvars, pmvars, isrvars, commandStationRunning, commandStationLoop, semCount, tpc,
                 loopStep, cpc, carg, cres, callLog, BR_ENABLE, BIDIR_EN,
                 timIT, timPWM, customPacket, customPacketLoaded,
                 customPacketTrigger, customPacketCount, customPacketDelay,
                 zerobitOverrideMask, zerobitDeltaP, dac_value,
                 trigger_first_bit, tlocal, engineCfg, txq>>

(***************************************************************************)
(* CommandStationThread, lines 603-825.                                    *)
(***************************************************************************)
\* line 613: osSemaphoreAcquire(commandStationStart_sem, osWaitForever)
Thread_Acquire ==
  /\ tpc = "acquire"
  /\ IF semCount > 0
     THEN semCount' = semCount - 1 /\ tpc' = "load"
     ELSE semCount' = semCount /\ tpc' = "blocked"
  /\ UNCHANGED <<rpcvars, pmvars, isrvars, commandStationRunning, commandStationLoop, loopStep, cpc,
                 carg, cres, callLog, BR_ENABLE, BIDIR_EN, timIT, timPWM,
                 customPacket, customPacketLoaded, customPacketTrigger,
                 customPacketCount, customPacketDelay, zerobitOverrideMask,
                 zerobitDeltaP, zerobitDeltaN, dac_value, trigger_first_bit,
                 tlocal, engineCfg, txq>>

\* Thread_Load reading the timing parameters at the first start only
Thread_Load_FirstStartOnly ==
  /\ tpc = "load"
  /\ tlocal' = IF tlocal.preamble_bits # 0 THEN tlocal
               ELSE [preamble_bits |-> get_dcc_preamble_bits(tlocal.preamble_bits),
                     bit1_duration |-> get_dcc_bit1_duration(tlocal.bit1_duration),
                     bit0_duration |-> get_dcc_bit0_duration(tlocal.bit0_duration),
                     bidi |-> get_dcc_bidi_enable(tlocal.bidi)]
  /\ dac_value' = get_dcc_bidi_dac(dac_value)
  /\ trigger_first_bit' = get_dcc_trigger_first_bit(trigger_first_bit)
  /\ zerobitOverrideMask' = get_dcc_zerobit_override_mask(zerobitOverrideMask)
  /\ zerobitDeltaP' = get_dcc_zerobit_deltaP(zerobitDeltaP)
  /\ zerobitDeltaN' = get_dcc_zerobit_deltaN(zerobitDeltaN)
  /\ tpc' = "init"
  /\ UNCHANGED <<rpcvars, pmvars, isrvars, commandStationRunning, commandStationLoop, semCount,
                 loopStep, cpc, carg, cres, callLog, BR_ENABLE, BIDIR_EN,
                 timIT, timPWM, customPacket, customPacketLoaded,
                 customPacketTrigger, customPacketCount, customPacketDelay,
                 engineCfg, txq>>

\* lines 615-623: read the parameter store
Thread_Load ==
  /\ tpc = "load"
  /\ tlocal' = [preamble_bits |-> get_dcc_preamble_bits(tlocal.preamble_bits),
                bit1_duration |-> get_dcc_bit1_duration(tlocal.bit1_duration),
                bit0_duration |-> get_dcc_bit0_duration(tlocal.bit0_duration),
                bidi |-> get_dcc_bidi_enable(tlocal.bidi)]
  /\ dac_value' = get_dcc_bidi_dac(dac_value)
  /\ trigger_first_bit' = get_dcc_trigger_first_bit(trigger_first_bit)
  /\ zerobitOverrideMask' = get_dcc_zerobit_override_mask(zerobitOverrideMask)
  /\ zerobitDeltaP' = get_dcc_zerobit_deltaP(zerobitDeltaP)
  /\ zerobitDeltaN' = get_dcc_zerobit_deltaN(zerobitDeltaN)
  /\ tpc' = "init"
  /\ UNCHANGED <<rpcvars, pmvars, isrvars, commandStationRunning, commandStationLoop, semCount,
                 loopStep, cpc, carg, cres, callLog, BR_ENABLE, BIDIR_EN,
                 timIT, timPWM, customPacket, customPacketLoaded,
                 customPacketTrigger, customPacketCount, customPacketDelay,
                 engineCfg, txq>>

\* command_station.init(cfg): the engine starts with no packet in progress
EngineInit ==
  /\ engFrame' = <<>>
  /\ engHalf' = 0
  /\ UNCHANGED <<bitCountMask, currentPhaseIsP, trackN, trackP, scopePin, ARR,
                 isrNominal, isrBit>>

\* lines 626-646: init the engine, enable the timer, set the running flag
Thread_Init ==
  /\ tpc = "init"
  /\ engineCfg' = [num_preamble |-> tlocal.preamble_bits,
                   bit1_duration |-> tlocal.bit1_duration,
                   bit0_duration |-> tlocal.bit0_duration,
                   bidi |-> tlocal.bidi # 0]
  /\ timIT' = TRUE
  /\ timPWM' = TRUE
  /\ commandStationRunning' = TRUE
  /\ tpc' = "select"
  /\ EngineInit
  /\ UNCHANGED <<rpcvars, pmvars, commandStationLoop, semCount, loopStep, cpc, carg, cres,
                 callLog, BR_ENABLE, BIDIR_EN, customPacket,
                 customPacketLoaded, customPacketTrigger, customPacketCount,
                 customPacketDelay, zerobitOverrideMask, zerobitDeltaP,
                 zerobitDeltaN, dac_value, trigger_first_bit, tlocal, txq>>

\* lines 649, 669, 716, 763: choose the loop by commandStationLoop
Thread_Select ==
  /\ tpc = "select"
  /\ tpc' = CASE commandStationLoop = 0 -> "loop0"
              [] commandStationLoop = 1 -> "loop1"
              [] commandStationLoop = 2 -> "loop2"
              [] OTHER -> "loop3"
  /\ loopStep' = 0
  /\ UNCHANGED <<rpcvars, pmvars, isrvars, commandStationRunning, commandStationLoop, semCount, cpc,
                 carg, cres, callLog, BR_ENABLE, BIDIR_EN, timIT, timPWM,
                 customPacket, customPacketLoaded, customPacketTrigger,
                 customPacketCount, customPacketDelay, zerobitOverrideMask,
                 zerobitDeltaP, zerobitDeltaN, dac_value, trigger_first_bit,
                 tlocal, engineCfg, txq>>

\* lines 651-667: custom packet mode, one evaluation of the while condition
\* and of the trigger test (the osDelay(100) pass that finds nothing to do
\* changes no state)
Thread_Loop0 ==
  /\ tpc = "loop0"
  /\ IF ~commandStationRunning
     THEN tpc' = "teardown"
     ELSE /\ customPacketTrigger /\ customPacketLoaded
          /\ tpc' = "burst"
  /\ loopStep' = 0
  /\ UNCHANGED <<rpcvars, pmvars, isrvars, commandStationRunning, commandStationLoop, semCount, cpc,
                 carg, cres, callLog, BR_ENABLE, BIDIR_EN, timIT, timPWM,
                 customPacket, customPacketLoaded, customPacketTrigger,
                 customPacketCount, customPacketDelay, zerobitOverrideMask,
                 zerobitDeltaP, zerobitDeltaN, dac_value, trigger_first_bit,
                 tlocal, engineCfg, txq>>

\* lines 653-664: one iteration of the burst, or its end
Thread_Burst ==
  /\ tpc = "burst"
  /\ IF loopStep < customPacketCount
     THEN /\ txq' = EnginePacket(txq, customPacket)
          /\ loopStep' = loopStep + 1
          /\ UNCHANGED <<tpc, customPacketTrigger>>
     ELSE /\ customPacketTrigger' = FALSE
          /\ tpc' = "loop0"
          /\ loopStep' = 0
          /\ UNCHANGED txq
  /\ UNCHANGED <<rpcvars, pmvars, isrvars, commandStationRunning, commandStationLoop, semCount, cpc,
                 carg, cres, callLog, BR_ENABLE, BIDIR_EN, timIT, timPWM,
                 customPacket, customPacketLoaded, customPacketCount,
                 customPacketDelay, zerobitOverrideMask, zerobitDeltaP,
                 zerobitDeltaN, dac_value, trigger_first_bit, tlocal,
                 engineCfg>>

\* lines 672-714 and 719-761: the while condition is tested at the top of a
\* pass only; every packet of the pass is handed over
Thread_Loop12 ==
  /\ tpc \in {"loop1", "loop2"}
  /\ LET pkts == IF tpc = "loop1" THEN Loop1Packets ELSE Loop2Packets
     IN  IF loopStep = 0 /\ ~commandStationRunning
         THEN /\ tpc' = "teardown"
              /\ UNCHANGED <<loopStep, txq>>
         ELSE /\ txq' = EnginePacket(txq, pkts[loopStep + 1])
              /\ loopStep' = (loopStep + 1) % Len(pkts)
              /\ UNCHANGED tpc
  /\ UNCHANGED <<rpcvars, pmvars, isrvars, commandStationRunning, commandStationLoop, semCount, cpc,
                 carg, cres, callLog, BR_ENABLE, BIDIR_EN, timIT, timPWM,
                 customPacket, customPacketLoaded, customPacketTrigger,
                 customPacketCount, customPacketDelay, zerobitOverrideMask,
                 zerobitDeltaP, zerobitDeltaN, dac_value, trigger_first_bit,
                 tlocal, engineCfg>>

\* lines 766-810: every for loop tests the running flag before each packet
Thread_Loop3 ==
  /\ tpc = "loop3"
  /\ IF loopStep = 0 /\ ~commandStationRunning
     THEN /\ tpc' = "teardown"
          /\ UNCHANGED <<loopStep, txq>>
     ELSE IF commandStationRunning
     THEN /\ txq' = EnginePacket(txq, Loop3Packet(loopStep))
          /\ loopStep' = (loopStep + 1) % Loop3Len
          /\ UNCHANGED tpc
     ELSE /\ loopStep' = (((loopStep \div RampSteps) + 1) * RampSteps) % Loop3Len
          /\ UNCHANGED <<tpc, txq>>
  /\ UNCHANGED <<rpcvars, pmvars, isrvars, commandStationRunning, commandStationLoop, semCount, cpc,
                 carg, cres, callLog, BR_ENABLE, BIDIR_EN, timIT, timPWM,
                 customPacket, customPacketLoaded, customPacketTrigger,
                 customPacketCount, customPacketDelay, zerobitOverrideMask,
                 zerobitDeltaP, zerobitDeltaN, dac_value, trigger_first_bit,
                 tlocal, engineCfg>>

\* lines 819-821: stop the timer, disable the update interrupt, release
Thread_Teardown ==
  /\ tpc = "teardown"
  /\ timPWM' = FALSE
  /\ timIT' = FALSE
  /\ osSemaphoreRelease("delay5", cpc)
  /\ UNCHANGED <<rpcvars, pmvars, isrvars, commandStationRunning, commandStationLoop, loopStep, carg,
                 cres, callLog, BR_ENABLE, BIDIR_EN, customPacket,
                 customPacketLoaded, customPacketTrigger, customPacketCount,
                 customPacketDelay, zerobitOverrideMask, zerobitDeltaP,
                 zerobitDeltaN, dac_value, trigger_first_bit, tlocal,
                 engineCfg, txq>>

\* line 822: osDelay(5u), then back to the top of the task loop
Thread_Delay5 ==
  /\ tpc = "delay5"
  /\ tpc' = "acquire"
  /\ UNCHANGED <<rpcvars, pmvars, isrvars, commandStationRunning, commandStationLoop, semCount,
                 loopStep, cpc, carg, cres, callLog, BR_ENABLE, BIDIR_EN,
                 timIT, timPWM, customPacket, customPacketLoaded,
                 customPacketTrigger, customPacketCount, customPacketDelay,
                 zerobitOverrideMask, zerobitDeltaP, zerobitDeltaN, dac_value,
                 trigger_first_bit, tlocal, engineCfg, txq>>

(***************************************************************************)
(* Parameter manager: CRC-32 and the flash block.                          *)
(***************************************************************************)
MAGIC_NUMBER == <<21057, 20545>>     \* 0x50415241 as <<0x5241, 0x5041>>
VERSION == 1
PARAM_DATA_SIZE == 512
CRC_POLY == <<33568, 60856>>         \* 0xEDB88320 as <<0x8320, 0xEDB8>>
ERASED == 65535                      \* an erased flash halfword

U32(n) == <<n % 65536, n \div 65536>>

\* entry i of crc32_table: eight shift/xor steps of the reflected polynomial
RECURSIVE CrcReduce(_, _)
CrcReduce(c, n) ==
  IF n = 0 THEN c
  ELSE CrcReduce(IF c[1] % 2 = 1 THEN Xor32(Shr32(c, 1), CRC_POLY)
                 ELSE Shr32(c, 1), n - 1)

crc32_table == [i \in 0 .. 255 |-> CrcReduce(<<i, 0>>, 8)]

\* lines 163-164: one byte folded into crc
CrcByte(crc, b) ==
  Xor32(Shr32(crc, 8), crc32_table[XorBits(crc[1] % 256, b, 8)])

\* lines 160-165: the loop over the first n bytes of data
RECURSIVE CrcLoop(_, _)
CrcLoop(data, n) ==
  IF n = 0 THEN <<65535, 65535>>
  ELSE CHOOSE r \in {CrcByte(c, data[n]) : c \in {CrcLoop(data, n - 1)}} : TRUE

\* calculate_crc32(data, length), lines 153-168
calculate_crc32(data) ==
  IF Len(data) = 0 THEN <<0, 0>> ELSE Not32(CrcLoop(data, Len(data)))

\* the flash block as halfwords: magic, version, crc32, dataSize, data
HDR == 8
BlockHalfwords == HDR + PayloadHalfwords

DataHalfwords(d) ==
  [i \in 1 .. PayloadHalfwords |-> Halfword(d[(2 * i) - 1], d[2 * i])]

DataOfBlock_Swapped(b) ==
  [i \in 1 .. PayloadBytes |->
     IF i % 2 = 1 THEN HiByte(b[HDR + ((i + 1) \div 2)])
     ELSE LoByte(b[HDR + (i \div 2)])]

DataOfBlock(b) ==
  [i \in 1 .. PayloadBytes |->
     IF i % 2 = 1 THEN LoByte(b[HDR + ((i + 1) \div 2)])
     ELSE HiByte(b[HDR + (i \div 2)])]

MakeBlock(magic, version, crc, size, d) ==
  <<magic[1], magic[2], version[1], version[2], crc[1], crc[2],
    size[1], size[2]>> \o DataHalfwords(d)

BlockMagic(b) == <<b[1], b[2]>>
BlockVersion(b) == <<b[3], b[4]>>
BlockCrc(b) == <<b[5], b[6]>>
BlockSize(b) == <<b[7], b[8]>>

BlankFlash == [i \in 1 .. BlockHalfwords |-> ERASED]
ZeroBlock == [i \in 1 .. BlockHalfwords |-> 0]

\* the block save() builds in g_flashStorage, lines 236-240
StagedBlock(d) ==
  MakeBlock(MAGIC_NUMBER, U32(VERSION), calculate_crc32(d),
            U32(PARAM_DATA_SIZE), d)

BlockValid_NoVersion(b) ==
  /\ BlockMagic(b) = MAGIC_NUMBER
  /\ BlockSize(b) = U32(PARAM_DATA_SIZE)
  /\ calculate_crc32(DataOfBlock(b)) = BlockCrc(b)

\* the four checks of restore(), lines 324-343
BlockValid(b) ==
  /\ BlockMagic(b) = MAGIC_NUMBER
  /\ BlockVersion(b) = U32(VERSION)
  /\ BlockSize(b) = U32(PARAM_DATA_SIZE)
  /\ calculate_crc32(DataOfBlock(b)) = BlockCrc(b)

(***************************************************************************)
(* Parameter manager operations.  Return values are the C ones: 0 success, *)
(* -1 failure.                                                             *)
(***************************************************************************)
\* load_defaults() that only clears the data
load_defaults_ClearOnly == ZeroData

\* load_defaults(), lines 173-200: the data it leaves (it also sets g_modified)
load_defaults == DefaultData

\* parameter_manager_restore() as a function of the state: the staging
\* buffer, the RAM shadow, the modified flag and the return value it leaves
RestoreResult(init, data, modified, staging, fl) ==
  IF ~init
  THEN [ret |-> -1, data |-> data, modified |-> modified, staging |-> staging]
  ELSE IF BlockValid(fl)
  THEN [ret |-> 0, data |-> DataOfBlock(fl), modified |-> FALSE,
        staging |-> fl]
  ELSE [ret |-> -1, data |-> data, modified |-> modified, staging |-> fl]

\* parameter_manager_restore(), lines 293-350
parameter_manager_restore ==
  /\ pmpc = "idle"
  /\ LET r == RestoreResult(g_initialized, g_paramData, g_modified,
                            g_flashStorage, flash)
     IN  /\ g_paramData' = r.data
         /\ g_modified' = r.modified
         /\ g_flashStorage' = r.staging
         /\ pmret' = [op |-> "restore", ret |-> r.ret]
  /\ UNCHANGED <<g_initialized, flash, pmpc, saveIdx, pm_zerobit>>
  /\ UNCHANGED <<csvars, isrvars, rpcvars>>

\* parameter_manager_init(force_defaults), lines 205-225
parameter_manager_init(force_defaults) ==
  /\ pmpc = "idle"
  /\ IF g_initialized /\ ~force_defaults
     THEN UNCHANGED <<g_paramData, g_initialized, g_modified, g_flashStorage>>
     ELSE /\ g_initialized' = TRUE
          /\ IF force_defaults
             THEN /\ g_paramData' = load_defaults
                  /\ g_modified' = FALSE
                  /\ UNCHANGED g_flashStorage
             ELSE LET r == RestoreResult(TRUE, load_defaults, FALSE,
                                         g_flashStorage, flash)
                  IN  /\ g_flashStorage' = r.staging
                      /\ IF r.ret # 0
                         THEN g_paramData' = load_defaults /\ g_modified' = TRUE
                         ELSE g_paramData' = r.data /\ g_modified' = r.modified
  /\ pmret' = [op |-> "init", ret |-> 0]
  /\ UNCHANGED <<flash, pmpc, saveIdx, pm_zerobit>>
  /\ UNCHANGED <<csvars, isrvars, rpcvars>>

\* parameter_manager_save(), lines 230-262: build the block, erase the sector
parameter_manager_save_erase(hal_ok) ==
  /\ pmpc = "idle"
  /\ IF ~g_initialized
     THEN /\ pmret' = [op |-> "save", ret |-> -1]
          /\ UNCHANGED <<g_flashStorage, flash, pmpc, saveIdx>>
     ELSE /\ g_flashStorage' = StagedBlock(g_paramData)
          /\ IF hal_ok
             THEN /\ flash' = BlankFlash
                  /\ pmpc' = "program"
                  /\ saveIdx' = 0
                  /\ UNCHANGED pmret
             ELSE /\ pmret' = [op |-> "save", ret |-> -1]
                  /\ UNCHANGED <<flash, pmpc, saveIdx>>
  /\ UNCHANGED <<g_paramData, g_initialized, g_modified, pm_zerobit>>
  /\ UNCHANGED <<csvars, isrvars, rpcvars>>

\* the programming loop clearing g_modified on its way out whatever the
\* status of the last HAL_FLASH_Program
parameter_manager_save_program_ClearsFlag(hal_ok) ==
  /\ pmpc = "program"
  /\ IF hal_ok
     THEN /\ flash' = [flash EXCEPT ![saveIdx + 1] = g_flashStorage[saveIdx + 1]]
          /\ IF saveIdx + 1 = BlockHalfwords
             THEN /\ pmpc' = "idle"
                  /\ saveIdx' = 0
                  /\ g_modified' = FALSE
                  /\ pmret' = [op |-> "save", ret |-> 0]
             ELSE /\ saveIdx' = saveIdx + 1
                  /\ UNCHANGED <<pmpc, g_modified, pmret>>
     ELSE /\ pmpc' = "idle"
          /\ saveIdx' = 0
          /\ g_modified' = FALSE
          /\ pmret' = [op |-> "save", ret |-> -1]
          /\ UNCHANGED flash
  /\ UNCHANGED <<g_paramData, g_initialized, g_flashStorage, pm_zerobit>>
  /\ UNCHANGED <<csvars, isrvars, rpcvars>>

\* lines 269-288: program halfword pmpc of the block; after the last one
\* clear g_modified and return 0
parameter_manager_save_program(hal_ok) ==
  /\ pmpc = "program"
  /\ IF hal_ok
     THEN /\ flash' = [flash EXCEPT ![saveIdx + 1] = g_flashStorage[saveIdx + 1]]
          /\ IF saveIdx + 1 = BlockHalfwords
             THEN /\ pmpc' = "idle"
                  /\ saveIdx' = 0
                  /\ g_modified' = FALSE
                  /\ pmret' = [op |-> "save", ret |-> 0]
             ELSE /\ saveIdx' = saveIdx + 1
                  /\ UNCHANGED <<pmpc, g_modified, pmret>>
     ELSE /\ pmpc' = "idle"
          /\ saveIdx' = 0
          /\ pmret' = [op |-> "save", ret |-> -1]
          /\ UNCHANGED <<flash, g_modified>>
  /\ UNCHANGED <<g_paramData, g_initialized, g_flashStorage, pm_zerobit>>
  /\ UNCHANGED <<csvars, isrvars, rpcvars>>

\* the typed setters, lines 450-640: -1 before init, else store and mark
SetterEffect(newData, op) ==
  /\ pmpc = "idle"
  /\ IF g_initialized
     THEN /\ g_paramData' = newData
          /\ g_modified' = TRUE
          /\ pmret' = [op |-> op, ret |-> 0]
     ELSE /\ UNCHANGED <<g_paramData, g_modified>>
          /\ pmret' = [op |-> op, ret |-> -1]
  /\ UNCHANGED <<g_initialized, g_flashStorage, flash, pmpc, saveIdx,
                 pm_zerobit>>
  /\ UNCHANGED <<csvars, isrvars, rpcvars>>

\* the stores of the typed setters on the RAM shadow d
set_dcc_preamble_bits(d, v) == PutU8(d, OFF_PREAMBLE_BITS, v)
set_dcc_bit1_duration(d, v) == PutU8(d, OFF_BIT1_DURATION, v)
set_dcc_bit0_duration(d, v) == PutU8(d, OFF_BIT0_DURATION, v)
set_dcc_bidi_enable(d, v) ==
  PutU8(d, OFF_BIDI_ENABLE, IF v # 0 THEN 1 ELSE 0)
set_dcc_trigger_first_bit(d, v) ==
  PutU8(d, OFF_TRIGGER_FIRST_BIT, IF v # 0 THEN 1 ELSE 0)
set_dcc_bidi_dac(d, v) == PutU16(d, OFF_BIDI_DAC, v)

\* the timing keys of command_station_params_handler, in the order it
\* applies them; a params object is a record holding the keys it contains
ParamsData(d, params) ==
  LET has(k) == k \in DOMAIN params
      d1 == IF has("preamble_bits")
            THEN set_dcc_preamble_bits(d, params.preamble_bits) ELSE d
      d2 == IF has("bit1_duration")
            THEN set_dcc_bit1_duration(d1, params.bit1_duration) ELSE d1
      d3 == IF has("bit0_duration")
            THEN set_dcc_bit0_duration(d2, params.bit0_duration) ELSE d2
      d4 == IF has("bidi_enable")
            THEN set_dcc_bidi_enable(d3, IF params.bidi_enable THEN 1 ELSE 0)
            ELSE d3
  IN  IF has("trigger_first_bit")
      THEN set_dcc_trigger_first_bit(d4, IF params.trigger_first_bit
                                         THEN 1 ELSE 0)
      ELSE d4

\* command_station_params_handler with at least one timing key: the first
\* setter fails before init, else every key present is stored
command_station_params_handler(params) ==
  SetterEffect(ParamsData(g_paramData, params), "set")

\* a direct call of set_dcc_bidi_dac(v)
Call_set_dcc_bidi_dac(v) ==
  SetterEffect(set_dcc_bidi_dac(g_paramData, v), "set")

(***************************************************************************)
(* Timing engine (section 4.C) and the timer-update ISR.                   *)
(***************************************************************************)
DCC_TX_MIN_BIT_0_TIMING == 97

IdlePacket == <<255, 0, 255>>

\* the eight bits of a byte, most significant first
ByteBits(b) == [i \in 1 .. 8 |-> (b \div (2 ^ (8 - i))) % 2]

\* preamble, then per byte a 0 bit and the byte, then the stop bit 1
FrameBits(num_preamble, pkt) ==
  LET RECURSIVE Body(_)
      Body(i) == IF i = 0 THEN <<>>
                 ELSE Body(i - 1) \o <<0>> \o ByteBits(pkt[i])
  IN  [i \in 1 .. num_preamble |-> 1] \o Body(Len(pkt)) \o <<1>>

\* bitCountMask <<= 1 on a uint64_t holding the set m of bits
ShiftLeft1(m) == {b + 1 : b \in {x \in m : x + 1 \in MaskBits}}

\* trackOutputs counting a bit on both phases instead of the positive one
trackOutputs_CountBothPhases(N, P, first_bit) ==
  /\ trackN' = N
  /\ trackP' = P
  /\ currentPhaseIsP' = P
  /\ bitCountMask' = IF first_bit THEN {0} ELSE ShiftLeft1(bitCountMask)
  /\ scopePin' = IF trigger_first_bit # 0 THEN first_bit ELSE scopePin

\* CommandStation::trackOutputs(N, P, first_bit), lines 522-544
trackOutputs(N, P, first_bit) ==
  /\ trackN' = N
  /\ trackP' = P
  /\ currentPhaseIsP' = P
  /\ bitCountMask' = IF P
                     THEN (IF first_bit THEN {0} ELSE ShiftLeft1(bitCountMask))
                     ELSE bitCountMask
  /\ scopePin' = IF trigger_first_bit # 0 THEN first_bit ELSE scopePin

\* the ISR adjusting one bits as well as zero bits
OverrideArr_AnyBit(arr, mask, bcm, phaseP, dP, dN) ==
  IF (mask \cap bcm) # {}
  THEN arr + (IF phaseP THEN dP ELSE dN)
  ELSE arr

\* lines 592-598: the value the ISR writes to ARR for the value arr that
\* transmit() returned, with the mask and phase trackOutputs left
OverrideArr(arr, mask, bcm, phaseP, dP, dN) ==
  IF (mask \cap bcm) # {}
  THEN (IF arr >= DCC_TX_MIN_BIT_0_TIMING
        THEN arr + (IF phaseP THEN dP ELSE dN)
        ELSE arr)
  ELSE arr

\* CommandStation::biDiStart() and biDiEnd(), lines 546-558
biDiStart == BR_ENABLE' = FALSE /\ BIDIR_EN' = TRUE

biDiEnd == BIDIR_EN' = FALSE /\ BR_ENABLE' = TRUE

\* timer events of one cutout: the engine calls biDiStart, biDiChannel1,
\* biDiChannel2 and biDiEnd, one per event
CutoutSteps == 4

\* TIM2_IRQHandler, lines 567-601, update event: command_station.transmit()
\* emits the next half-bit (at a packet boundary it first takes the next
\* packet of the queue, or the idle packet), then ARR is programmed.  With
\* BiDi configured the engine follows the stop bit of a packet by the
\* cutout: engHalf goes on counting its timer events, the outputs are
\* switched off while it lasts, and the packet boundary comes after it.
TIM2_IRQHandler ==
  /\ timIT /\ timPWM
  /\ LET cutout == IF engineCfg.bidi /\ Len(engFrame) > 0 THEN CutoutSteps ELSE 0
         step == engHalf - 2 * Len(engFrame)
         boundary == step = cutout
         pkt == IF Len(txq) > 0 THEN Head(txq) ELSE IdlePacket
         frame == IF boundary
                  THEN FrameBits(engineCfg.num_preamble, pkt)
                  ELSE engFrame
         half == IF boundary THEN 0 ELSE engHalf
         bit == half \div 2
         arr == IF frame[bit + 1] = 1 THEN engineCfg.bit1_duration
                ELSE engineCfg.bit0_duration
     IN  IF step >= 0 /\ step < cutout
         THEN /\ engHalf' = engHalf + 1
              /\ IF step = 0
                 THEN biDiStart /\ trackOutputs(FALSE, FALSE, FALSE)
                 ELSE /\ IF step = CutoutSteps - 1
                         THEN biDiEnd
                         ELSE UNCHANGED <<BR_ENABLE, BIDIR_EN>>
                      /\ UNCHANGED <<trackN, trackP, currentPhaseIsP,
                                     bitCountMask, scopePin>>
              /\ UNCHANGED <<engFrame, txq, isrNominal, isrBit, ARR>>
         ELSE /\ engFrame' = frame
              /\ engHalf' = half + 1
              /\ txq' = IF boundary /\ Len(txq) > 0 THEN Tail(txq) ELSE txq
              /\ trackOutputs(half % 2 = 1, half % 2 = 0, half = 0)
              /\ isrNominal' = arr
              /\ isrBit' = bit
              /\ ARR' = OverrideArr(arr, zerobitOverrideMask, bitCountMask',
                                    currentPhaseIsP', zerobitDeltaP, zerobitDeltaN)
              /\ UNCHANGED <<BR_ENABLE, BIDIR_EN>>
  /\ UNCHANGED <<commandStationRunning, commandStationLoop, semCount, tpc,
                 loopStep, cpc, carg, cres, callLog,
                 timIT, timPWM, customPacket, customPacketLoaded,
                 customPacketTrigger, customPacketCount, customPacketDelay,
                 zerobitOverrideMask, zerobitDeltaP, zerobitDeltaN, dac_value,
                 trigger_first_bit, tlocal, engineCfg>>
  /\ UNCHANGED <<rpcvars, pmvars>>

(***************************************************************************)
(* RPC dispatcher (src/unnamed/part_015, class in src/unnamed/part_002).   *)
(*                                                                         *)
(* A std::string may hold NUL characters (JSON "\u0000" parses to one); it *)
(* is modelled as the sequence of its NUL-free segments.  A C string is a  *)
(* TLA+ string; c_str() gives a pointer to the characters, which every C   *)
(* string function reads up to the first NUL, so two C strings compare     *)
(* equal under strcmp when the TLA+ strings are equal.                     *)
(***************************************************************************)
kMaxMethods == 30

nullptr == "<nullptr>"

c_str(s) == s[1]

RECURSIVE FirstMatch(_, _, _)
FirstMatch(t, name, i) ==
  IF i > Len(t) THEN 0
  ELSE IF t[i].name # nullptr /\ t[i].name = name THEN i   \* strcmp == 0
  ELSE FirstMatch(t, name, i + 1)

\* register_method compiled against a table of 16 entries, the capacity of
\* src/Core/Inc/rpc_server.hpp line 43
register_method_Capacity16(t, name, handler) ==
  IF name = nullptr \/ handler = nullptr THEN [table |-> t, ret |-> FALSE]
  ELSE IF Len(t) >= 16 THEN [table |-> t, ret |-> FALSE]
  ELSE IF FirstMatch(t, name, 1) # 0
       THEN [table |-> [t EXCEPT ![FirstMatch(t, name, 1)].handler = handler],
             ret |-> TRUE]
       ELSE [table |-> Append(t, [name |-> name, handler |-> handler]), ret |-> TRUE]

register_method(t, name, handler) ==
  IF name = nullptr \/ handler = nullptr THEN [table |-> t, ret |-> FALSE]
  ELSE IF Len(t) >= kMaxMethods THEN [table |-> t, ret |-> FALSE]
  ELSE IF FirstMatch(t, name, 1) # 0
       THEN [table |-> [t EXCEPT ![FirstMatch(t, name, 1)].handler = handler],
             ret |-> TRUE]
       ELSE [table |-> Append(t, [name |-> name, handler |-> handler]), ret |-> TRUE]

find(t, name) ==
  IF name = nullptr THEN nullptr
  ELSE IF FirstMatch(t, name, 1) # 0 THEN t[FirstMatch(t, name, 1)].handler
  ELSE nullptr

error_response(msg) ==
  [status |-> "error", message |-> IF msg # nullptr THEN msg ELSE "error"]

BootMethods ==
  << "echo", "command_station_start", "command_station_stop",
     "command_station_load_packet", "command_station_transmit_packet",
     "command_station_params", "command_station_packet_override",
     "command_station_packet_reset_override",
     "command_station_packet_get_override", "command_station_get_params",
     "decoder_start", "decoder_stop", "parameters_save",
     "parameters_restore", "parameters_factory_reset", "system_reboot",
     "get_voltage_feedback_mv", "get_current_feedback_ma", "get_gpio_input",
     "get_gpio_inputs", "configure_gpio_output", "set_gpio_output",
     "get_rtc_datetime", "set_rtc_datetime" >>

HandlerOf(name) == name \o "_handler"

RECURSIVE RegisterAll(_, _)
RegisterAll(t, n) ==
  IF n = 0 THEN t
  ELSE CHOOSE r \in { register_method(u, BootMethods[n],
                                       HandlerOf(BootMethods[n])).table :
                         u \in {RegisterAll(t, n - 1)} } : TRUE

(***************************************************************************)
(* JSON values as far as the dispatcher and the modelled handlers look at  *)
(* them: the type, and for an object the member "count".                   *)
(***************************************************************************)
JsonNull == [type |-> "null", count |-> "absent"]

ParamValues ==
  { JsonNull } \cup
  { [type |-> "object", count |-> c] : c \in {"absent", "string", "0", "1"} }

NoRequest ==
  [accept |-> FALSE, has_method |-> FALSE, has_params |-> FALSE,
   method_is_string |-> FALSE, method |-> <<"">>, params |-> JsonNull,
   id |-> 0]

Request(method, params, n) ==
  [accept |-> TRUE, has_method |-> TRUE, has_params |-> TRUE,
   method_is_string |-> TRUE, method |-> method, params |-> params,
   id |-> n]

MethodStrings ==
  { <<"echo">>, <<"echo", "x">>, <<"nosuch">>,
    <<"command_station_transmit_packet">>, <<"system_reboot">> }

Requests(n) ==
  { [NoRequest EXCEPT !.id = n],
    [Request(<<"echo">>, JsonNull, n) EXCEPT !.has_method = FALSE],
    [Request(<<"echo">>, JsonNull, n) EXCEPT !.has_params = FALSE],
    [Request(<<"echo">>, JsonNull, n) EXCEPT !.method_is_string = FALSE] }
  \cup { Request(m, JsonNull, n) : m \in MethodStrings }
  \cup { Request(<<"command_station_transmit_packet">>, p, n) :
           p \in ParamValues }

\* A response object: its status and its message ("" when it has none).
NoResponse == [status |-> "none", message |-> ""]

(***************************************************************************)
(* Handlers.  Each gives what the call does: "return" with the response,   *)
(* "throw" (json::get<uint32_t>() on a value that is not a number raises   *)
(* type_error 302; nothing in the server catches it, so the task ends in   *)
(* std::terminate), or "reset" (NVIC_SystemReset() does not return).       *)
(***************************************************************************)
echo_handler(params) ==
  [kind |-> "return", resp |-> [status |-> "ok", message |-> ""]]

command_station_transmit_packet_handler(params) ==
  IF params.type = "object" /\ params.count = "string"
  THEN [kind |-> "throw", resp |-> NoResponse]
  ELSE IF params.type = "object" /\ params.count = "0"
  THEN [kind |-> "return",
        resp |-> [status |-> "error",
                  message |-> "Count must be greater than 0"]]
  ELSE [kind |-> "return",
        resp |-> [status |-> "ok",
                  message |-> "Packet transmission triggered"]]

system_reboot_handler(params) ==
  [kind |-> "reset",
   resp |-> [status |-> "ok", message |-> "System rebooting..."]]

CallHandler(handler, params) ==
  CASE handler = "echo_handler" -> echo_handler(params)
    [] handler = "command_station_transmit_packet_handler" ->
         command_station_transmit_packet_handler(params)
    [] handler = "system_reboot_handler" -> system_reboot_handler(params)

(***************************************************************************)
(* RpcServer::handle up to the handler call: the error response it         *)
(* returns, or the handler it is about to invoke.                          *)
(***************************************************************************)
handle(t, request) ==
  IF ~request.accept
  THEN [call |-> nullptr, resp |-> error_response("Invalid JSON")]
  ELSE IF ~request.has_method \/ ~request.has_params
  THEN [call |-> nullptr, resp |-> error_response("Malformed request")]
  ELSE IF ~request.method_is_string
  THEN [call |-> nullptr, resp |-> error_response("Method must be string")]
  ELSE IF find(t, c_str(request.method)) = nullptr
  THEN [call |-> nullptr, resp |-> error_response("Unknown method")]
  ELSE [call |-> find(t, c_str(request.method)), resp |-> NoResponse]

(***************************************************************************)
(* USB CDC receive side (src/unnamed/part_016 lines 697-700, 840-905).     *)
(* A buffer's data is the sequence of the bytes written to it so far; the  *)
(* bytes after them are the zeros of the static initialiser.  sent is the  *)
(* byte stream the host has written, delivered the payloads the RPC task   *)
(* has taken from rpc_rxqueue.                                             *)
(***************************************************************************)
\* RX_BUFFER_SIZE is 2048 in the source (part_005 line 6); the buffers are
\* scaled to the length of the longest stream so that a run of bytes without
\* CR LF fills a buffer and a read can ask for more than the room left
RX_BUFFER_SIZE == 7
RX_POOL_SIZE == 2
APP_QUEUE_SIZE == 2

UsbBoot ==
  [buffer_pool |-> [b \in 0 .. RX_POOL_SIZE - 1 |-> [data |-> <<>>, length |-> 0]],
   current_buf |-> 0,
   rx_index |-> 0,
   rpc_rxqueue |-> <<>>,
   sent |-> <<>>,
   delivered |-> <<>>]

(***************************************************************************)
(* Analog manager (src/Core/Src/analog_manager.c): the owner of adc_mutex, *)
(* and for each calling task its position in analog_manager_get_value,     *)
(* the variable it passed as value, the return value and, for the RPC      *)
(* task, the response of the feedback handler; dr is the last conversion  *)
(* result of the converter.                                                *)
(***************************************************************************)
AdcBoot ==
  [owner |-> "none",
   pc |-> [c \in Callers |-> "idle"],
   what |-> [c \in Callers |-> "voltage"],
   value |-> [c \in Callers |-> 0],
   ret |-> [c \in Callers |-> 0],
   dr |-> 0,
   resp |-> NoResponse]

(***************************************************************************)
(* Decoder controller (src/unnamed/part_013 lines 144-212): the flag, the   *)
(* count of decoderStart_sem, the position of DecoderThread (tpc) and of   *)
(* the RPC task inside Decoder_Stop (cpc), the capture interrupt enable,   *)
(* the response of the last decoder handler and the methods called so far. *)
(***************************************************************************)
LoadBoot == [c \in Callers |-> [bytes |-> <<>>, i |-> 0]]

DecBoot ==
  [decoderRunning |-> FALSE,
   semCount |-> 0,
   tpc |-> "blocked",
   timIT |-> FALSE,
   cpc |-> "idle",
   resp |-> NoResponse,
   calls |-> <<>>]

RpcInit ==
  /\ table = <<>>
  /\ regret = FALSE
  /\ rpcpc = "start"
  /\ rpcReq = NoRequest
  /\ rpcResp = NoResponse
  /\ rpcLog = <<>>
  /\ usb = UsbBoot
  /\ adc = AdcBoot
  /\ dec = DecBoot
  /\ loadArg = LoadBoot

(***************************************************************************)
(* Initial state: static initialisers, CommandStation_Init (lines 828-832) *)
(* with the controller task waiting at its first osSemaphoreAcquire, and   *)
(* the parameter manager after parameter_manager_init(0) on a blank        *)
(* sector.                                                                 *)
(***************************************************************************)
CSInit ==
  /\ commandStationRunning = FALSE
  /\ commandStationLoop = 0
  /\ semCount = 0
  /\ tpc = "blocked"
  /\ loopStep = 0
  /\ cpc = [c \in Callers |-> "idle"]
  /\ carg = [c \in Callers |-> 0]
  /\ cres = [c \in Callers |-> FALSE]
  /\ callLog = <<>>
  /\ BR_ENABLE = FALSE
  /\ BIDIR_EN = FALSE
  /\ timIT = FALSE
  /\ timPWM = FALSE
  /\ customPacket = <<>>
  /\ customPacketLoaded = FALSE
  /\ customPacketTrigger = FALSE
  /\ customPacketCount = 1
  /\ customPacketDelay = 100
  /\ zerobitOverrideMask = {}
  /\ zerobitDeltaP = 0
  /\ zerobitDeltaN = 0
  /\ dac_value = 0
  /\ trigger_first_bit = 0
  /\ tlocal = [preamble_bits |-> 0, bit1_duration |-> 0, bit0_duration |-> 0,
               bidi |-> 0]
  /\ engineCfg = [num_preamble |-> 0, bit1_duration |-> 0,
                  bit0_duration |-> 0, bidi |-> FALSE]
  /\ txq = <<>>

ISRInit ==
  /\ engFrame = <<>>
  /\ engHalf = 0
  /\ bitCountMask = {}
  /\ currentPhaseIsP = TRUE
  /\ trackN = FALSE
  /\ trackP = FALSE
  /\ scopePin = FALSE
  /\ ARR = 0
  /\ isrNominal = 0
  /\ isrBit = 0

PMInit ==
  /\ g_paramData = DefaultData
  /\ g_initialized = TRUE
  /\ g_modified = TRUE
  /\ g_flashStorage = BlankFlash
  /\ flash = BlankFlash
  /\ pmpc = "idle"
  /\ saveIdx = 0
  /\ pmret = [op |-> "init", ret |-> 0]
  /\ pm_zerobit = [mask |-> {}, deltaP |-> 0, deltaN |-> 0]

Init == CSInit /\ PMInit /\ ISRInit /\ RpcInit

\* system reset (power loss, crash, system_reboot) and the start-up that
\* follows it: statics are zeroed, flash keeps what has been programmed so
\* far, and initialize_parameters() calls parameter_manager_init(0)
\* (src/unnamed/part_010, lines 284-300)
BootResult(fl) ==
  LET r == RestoreResult(TRUE, load_defaults, FALSE, ZeroBlock, fl)
  IN  [data |-> IF r.ret = 0 THEN r.data ELSE load_defaults,
       modified |-> r.ret # 0,
       staging |-> r.staging]

BootValues ==
  /\ LET b == BootResult(flash)
     IN  /\ g_paramData' = b.data
         /\ g_modified' = b.modified
         /\ g_flashStorage' = b.staging
  /\ g_initialized' = TRUE
  /\ pmpc' = "idle"
  /\ saveIdx' = 0
  /\ pmret' = [op |-> "init", ret |-> 0]
  /\ pm_zerobit' = [mask |-> {}, deltaP |-> 0, deltaN |-> 0]
  /\ UNCHANGED flash
  /\ commandStationRunning' = FALSE
  /\ commandStationLoop' = 0
  /\ semCount' = 0
  /\ tpc' = "blocked"
  /\ loopStep' = 0
  /\ cpc' = [c \in Callers |-> "idle"]
  /\ carg' = [c \in Callers |-> 0]
  /\ cres' = [c \in Callers |-> FALSE]
  /\ callLog' = <<>>
  /\ BR_ENABLE' = FALSE
  /\ BIDIR_EN' = FALSE
  /\ timIT' = FALSE
  /\ timPWM' = FALSE
  /\ customPacket' = <<>>
  /\ customPacketLoaded' = FALSE
  /\ customPacketTrigger' = FALSE
  /\ customPacketCount' = 1
  /\ customPacketDelay' = 100
  /\ zerobitOverrideMask' = {}
  /\ zerobitDeltaP' = 0
  /\ zerobitDeltaN' = 0
  /\ dac_value' = 0
  /\ trigger_first_bit' = 0
  /\ tlocal' = [preamble_bits |-> 0, bit1_duration |-> 0, bit0_duration |-> 0,
               bidi |-> 0]
  /\ engineCfg' = [num_preamble |-> 0, bit1_duration |-> 0,
                  bit0_duration |-> 0, bidi |-> FALSE]
  /\ txq' = <<>>
  /\ engFrame' = <<>>
  /\ engHalf' = 0
  /\ bitCountMask' = {}
  /\ currentPhaseIsP' = TRUE
  /\ trackN' = FALSE
  /\ trackP' = FALSE
  /\ scopePin' = FALSE
  /\ ARR' = 0
  /\ isrNominal' = 0
  /\ isrBit' = 0
  /\ table' = <<>>
  /\ regret' = FALSE
  /\ rpcpc' = "start"
  /\ rpcReq' = NoRequest
  /\ rpcResp' = NoResponse
  /\ usb' = UsbBoot
  /\ adc' = AdcBoot
  /\ dec' = DecBoot
  /\ loadArg' = LoadBoot

Reboot == BootValues /\ UNCHANGED rpcLog

(***************************************************************************)
(* The command-station controller: the controller task and its callers.    *)
(***************************************************************************)
Next ==
  \/ \E c \in Callers : \E loop \in CallerLoops(c) :
        CommandStation_Start_Check(c, loop)
  \/ \E c \in Callers : CommandStation_Start_Body(c)
  \/ \E c \in Callers : CommandStation_Stop_Check(c)
  \/ \E c \in Callers : CommandStation_Stop_Clear(c)
  \/ \E c \in Callers : CommandStation_Stop_Acquire(c)
  \/ \E c \in Callers : CommandStation_Stop_Finish(c)
  \/ Thread_Acquire
  \/ Thread_Load
  \/ Thread_Init
  \/ Thread_Select
  \/ Thread_Loop0
  \/ Thread_Loop12
  \/ Thread_Loop3
  \/ Thread_Teardown
  \/ Thread_Delay5

Spec == Init /\ [][Next]_vars

(***************************************************************************)
(* A custom-packet session: the RPC server as the only caller, starting    *)
(* the station in mode 0, with the requests that mode serves               *)
(* (src/unnamed/part_015): load and trigger of the custom packet and the   *)
(* packet override.                                                        *)
(***************************************************************************)
NextRpc ==
  \/ CommandStation_Start_Check("rpc", 0)
  \/ CommandStation_Start_Body("rpc")
  \/ CommandStation_Stop_Check("rpc")
  \/ CommandStation_Stop_Clear("rpc")
  \/ CommandStation_Stop_Acquire("rpc")
  \/ CommandStation_Stop_Finish("rpc")
  \/ \E b \in CustomPackets : CommandStation_LoadCustomPacket("rpc", b)
  \/ \E n \in 1 .. MaxCount : CommandStation_TriggerTransmit("rpc", n, 100)
  \/ \E m \in OverrideMasks : CommandStation_SetZerobitOverrideMask("rpc", m)
  \/ \E d \in OverrideDeltas : CommandStation_SetZerobitDeltaP("rpc", d)
  \/ \E d \in OverrideDeltas : CommandStation_SetZerobitDeltaN("rpc", d)
  \/ Thread_Acquire
  \/ Thread_Load
  \/ Thread_Init
  \/ Thread_Select
  \/ Thread_Loop0
  \/ Thread_Burst
  \/ Thread_Teardown
  \/ Thread_Delay5

SpecRpc == Init /\ [][NextRpc]_vars

(***************************************************************************)
(* The waveform of a running station: the station as one RPC start in mode *)
(* 0 leaves it once the controller task waits in its mode-0 loop, then the *)
(* timer-update interrupt, the custom packet requests and the override     *)
(* setters.                                                                *)
(***************************************************************************)
RunningMode0 ==
  /\ commandStationRunning = TRUE
  /\ commandStationLoop = 0
  /\ semCount = 0
  /\ tpc = "loop0"
  /\ loopStep = 0
  /\ cpc = [c \in Callers |-> "idle"]
  /\ carg = [c \in Callers |-> 0]
  /\ cres = [c \in Callers |-> c = "rpc"]
  /\ callLog = <<[who |-> "rpc", op |-> "start", arg |-> 0, ret |-> TRUE]>>
  /\ BR_ENABLE = TRUE
  /\ BIDIR_EN = FALSE
  /\ timIT = TRUE
  /\ timPWM = TRUE
  /\ customPacket = <<>>
  /\ customPacketLoaded = FALSE
  /\ customPacketTrigger = FALSE
  /\ customPacketCount = 1
  /\ customPacketDelay = 100
  /\ zerobitOverrideMask = {}
  /\ zerobitDeltaP = 0
  /\ zerobitDeltaN = 0
  /\ dac_value = DEFAULT_DCC_BIDI_DAC
  /\ trigger_first_bit = DEFAULT_DCC_TRIGGER_FIRST_BIT
  /\ tlocal = [preamble_bits |-> DEFAULT_DCC_PREAMBLE_BITS,
               bit1_duration |-> DEFAULT_DCC_BIT1_DURATION,
               bit0_duration |-> DEFAULT_DCC_BIT0_DURATION,
               bidi |-> DEFAULT_DCC_BIDI_ENABLE]
  /\ engineCfg = [num_preamble |-> DEFAULT_DCC_PREAMBLE_BITS,
                  bit1_duration |-> DEFAULT_DCC_BIT1_DURATION,
                  bit0_duration |-> DEFAULT_DCC_BIT0_DURATION,
                  bidi |-> FALSE]
  /\ txq = <<>>

InitISR == RunningMode0 /\ PMInit /\ ISRInit /\ RpcInit

NextISR ==
  \/ TIM2_IRQHandler
  \/ \E b \in CustomPackets : CommandStation_LoadCustomPacket("rpc", b)
  \/ \E n \in 1 .. MaxCount : CommandStation_TriggerTransmit("rpc", n, 100)
  \/ \E m \in OverrideMasks : CommandStation_SetZerobitOverrideMask("rpc", m)
  \/ \E d \in OverrideDeltas : CommandStation_SetZerobitDeltaP("rpc", d)
  \/ \E d \in OverrideDeltas : CommandStation_SetZerobitDeltaN("rpc", d)
  \/ Thread_Loop0
  \/ Thread_Burst

SpecISR == InitISR /\ [][NextISR]_vars

(***************************************************************************)
(* The parameter manager: the sector holds any of a few images when the    *)
(* firmware boots, then the manager's operations, a save being interrupted *)
(* by a reset at any halfword.                                             *)
(***************************************************************************)
ParamObjects ==
  { [preamble_bits |-> 20],
    [preamble_bits |-> 20, bit1_duration |-> 60, bit0_duration |-> 110,
     bidi_enable |-> TRUE, trigger_first_bit |-> TRUE] }

DacValues == {500}

SavedData == PutU8(DefaultData, OFF_PREAMBLE_BITS, 20)

FlashImages ==
  LET crc == calculate_crc32(SavedData)
  IN  { BlankFlash,
        StagedBlock(SavedData),
        MakeBlock(<<MAGIC_NUMBER[1], 0>>, U32(VERSION), crc,
                  U32(PARAM_DATA_SIZE), SavedData),
        MakeBlock(MAGIC_NUMBER, U32(VERSION + 1), crc,
                  U32(PARAM_DATA_SIZE), SavedData),
        MakeBlock(MAGIC_NUMBER, U32(VERSION), crc,
                  U32(PARAM_DATA_SIZE \div 2), SavedData),
        MakeBlock(MAGIC_NUMBER, U32(VERSION), crc,
                  U32(PARAM_DATA_SIZE), DefaultData) }

InitPM ==
  /\ CSInit
  /\ ISRInit
  /\ RpcInit
  /\ flash \in FlashImages
  /\ g_paramData = BootResult(flash).data
  /\ g_modified = BootResult(flash).modified
  /\ g_flashStorage = BootResult(flash).staging
  /\ g_initialized = TRUE
  /\ pmpc = "idle"
  /\ saveIdx = 0
  /\ pmret = [op |-> "init", ret |-> 0]
  /\ pm_zerobit = [mask |-> {}, deltaP |-> 0, deltaN |-> 0]

NextPM ==
  \/ \E f \in BOOLEAN : parameter_manager_init(f)
  \/ parameter_manager_restore
  \/ \E ok \in BOOLEAN : parameter_manager_save_erase(ok)
  \/ \E ok \in BOOLEAN : parameter_manager_save_program(ok)
  \/ \E p \in ParamObjects : command_station_params_handler(p)
  \/ \E v \in DacValues : Call_set_dcc_bidi_dac(v)
  \/ Reboot

SpecPM == InitPM /\ [][NextPM]_vars

(***************************************************************************)
(* Corruption of a saved block: the sector holds a valid block and one bit *)
(* of its payload changes before the next restore().                       *)
(***************************************************************************)
PayloadBits == 0 .. 15

\* one bit of one payload halfword of a valid block flips
FlipPayloadBit ==
  /\ pmpc = "idle"
  /\ BlockValid(flash)
  /\ \E h \in 1 .. PayloadHalfwords : \E b \in PayloadBits :
       flash' = [flash EXCEPT ![HDR + h] = XorBits(flash[HDR + h], 2 ^ b, 16)]
  /\ UNCHANGED <<g_paramData, g_initialized, g_modified, g_flashStorage,
                 pmpc, saveIdx, pmret, pm_zerobit>>
  /\ UNCHANGED <<csvars, isrvars, rpcvars>>

InitCrc == InitPM /\ flash = StagedBlock(SavedData)

NextCrc ==
  \/ \E p \in ParamObjects : command_station_params_handler(p)
  \/ parameter_manager_save_erase(TRUE)
  \/ parameter_manager_save_program(TRUE)
  \/ FlipPayloadBit
  \/ parameter_manager_restore

SpecCrc == InitCrc /\ [][NextCrc]_vars

(***************************************************************************)
(* The parameter manager from reset: statics are zero, the manager is not  *)
(* initialised until parameter_manager_init runs, and every entry point    *)
(* may be called in either state.                                          *)
(***************************************************************************)
\* the statics of the parameter manager after reset, before any call
PMReset(fl) ==
  /\ g_paramData = ZeroData
  /\ g_initialized = FALSE
  /\ g_modified = FALSE
  /\ g_flashStorage = ZeroBlock
  /\ flash = fl
  /\ pmpc = "idle"
  /\ saveIdx = 0
  /\ pmret = [op |-> "none", ret |-> 0]
  /\ pm_zerobit = [mask |-> {}, deltaP |-> 0, deltaN |-> 0]

\* a reset: the statics return to their initial values, flash is kept
Reset ==
  /\ g_paramData' = ZeroData
  /\ g_initialized' = FALSE
  /\ g_modified' = FALSE
  /\ g_flashStorage' = ZeroBlock
  /\ pmpc' = "idle"
  /\ saveIdx' = 0
  /\ pmret' = [op |-> "none", ret |-> 0]
  /\ UNCHANGED <<flash, pm_zerobit>>
  /\ UNCHANGED <<csvars, isrvars, rpcvars>>

InitBoot == CSInit /\ ISRInit /\ RpcInit /\ \E fl \in FlashImages : PMReset(fl)

NextBoot ==
  \/ \E f \in BOOLEAN : parameter_manager_init(f)
  \/ parameter_manager_restore
  \/ \E ok \in BOOLEAN : parameter_manager_save_erase(ok)
  \/ \E ok \in BOOLEAN : parameter_manager_save_program(ok)
  \/ \E p \in ParamObjects : command_station_params_handler(p)
  \/ Reset

SpecBoot == InitBoot /\ [][NextBoot]_vars

(***************************************************************************)
(* RpcServerThread (part_015 lines 1102-1147), one request at a time, and  *)
(* what the host sees of it: rpcLog records each request taken from the    *)
(* queue, each handler invocation, each response handed to                 *)
(* ux_device_class_cdc_acm_write, each system reset and the end of the     *)
(* task.                                                                   *)
(***************************************************************************)
MaxRequests == 2

LogEvent(ev, id, what) == [ev |-> ev, id |-> id, what |-> what]

Events(ev) == {i \in 1 .. Len(rpcLog) : rpcLog[i].ev = ev}

RpcServerThread_Register ==
  /\ rpcpc = "start"
  /\ table' = RegisterAll(table, Len(BootMethods))
  /\ regret' = register_method(RegisterAll(table, Len(BootMethods) - 1),
                               BootMethods[Len(BootMethods)],
                               HandlerOf(BootMethods[Len(BootMethods)])).ret
  /\ rpcpc' = "idle"
  /\ UNCHANGED <<rpcReq, rpcResp, rpcLog>>
  /\ UNCHANGED <<csvars, pmvars, isrvars, auxvars>>

RpcServerThread_Receive(request) ==
  /\ rpcpc = "idle"
  /\ Cardinality(Events("request")) < MaxRequests
  /\ rpcReq' = request
  /\ rpcLog' = Append(rpcLog, LogEvent("request", request.id, ""))
  /\ rpcpc' = "handle"
  /\ UNCHANGED <<table, regret, rpcResp>>
  /\ UNCHANGED <<csvars, pmvars, isrvars, auxvars>>

\* handle() returning without a handler call, or with a handler that returns.
RpcServerThread_Handle ==
  /\ rpcpc = "handle"
  /\ LET h == handle(table, rpcReq)
         r == CallHandler(h.call, rpcReq.params)
     IN  IF h.call = nullptr
         THEN /\ rpcResp' = h.resp
              /\ UNCHANGED <<rpcLog, csvars>>
         ELSE /\ r.kind = "return"
              /\ rpcResp' = r.resp
              /\ rpcLog' = Append(rpcLog, LogEvent("invoke", rpcReq.id, h.call))
              /\ IF /\ h.call = "command_station_transmit_packet_handler"
                    /\ r.resp.status = "ok"
                    /\ customPacketLoaded
                 THEN /\ customPacketCount' = 1
                      /\ customPacketDelay' = 100
                      /\ customPacketTrigger' = TRUE
                      /\ UNCHANGED <<commandStationRunning,
                            commandStationLoop, semCount, tpc, loopStep, cpc,
                            carg, cres, callLog, BR_ENABLE, BIDIR_EN, timIT,
                            timPWM, customPacket, customPacketLoaded,
                            zerobitOverrideMask, zerobitDeltaP, zerobitDeltaN,
                            dac_value, trigger_first_bit, tlocal, engineCfg,
                            txq>>
                 ELSE UNCHANGED csvars
  /\ rpcpc' = "write"
  /\ UNCHANGED <<table, regret, rpcReq>>
  /\ UNCHANGED <<pmvars, isrvars, auxvars>>

\* The handler throws: the exception leaves handle() and the task function.
RpcServerThread_HandleThrow ==
  /\ rpcpc = "handle"
  /\ LET h == handle(table, rpcReq)
     IN  /\ h.call # nullptr
         /\ CallHandler(h.call, rpcReq.params).kind = "throw"
         /\ rpcLog' = rpcLog \o << LogEvent("invoke", rpcReq.id, h.call),
                                  LogEvent("terminate", rpcReq.id, "") >>
  /\ rpcpc' = "terminated"
  /\ UNCHANGED <<table, regret, rpcReq, rpcResp>>
  /\ UNCHANGED <<csvars, pmvars, isrvars, auxvars>>

\* The handler resets the system: every task starts again from boot.
RpcServerThread_HandleReset ==
  /\ rpcpc = "handle"
  /\ LET h == handle(table, rpcReq)
     IN  /\ h.call # nullptr
         /\ CallHandler(h.call, rpcReq.params).kind = "reset"
         /\ rpcLog' = rpcLog \o << LogEvent("invoke", rpcReq.id, h.call),
                                  LogEvent("reset", rpcReq.id, "") >>
  /\ BootValues

RpcServerThread_Write ==
  /\ rpcpc = "write"
  /\ rpcLog' = Append(rpcLog, LogEvent("response", rpcReq.id, rpcResp))
  /\ rpcpc' = "idle"
  /\ UNCHANGED <<table, regret, rpcReq, rpcResp>>
  /\ UNCHANGED <<csvars, pmvars, isrvars, auxvars>>

NextServe ==
  \/ RpcServerThread_Register
  \/ \E request \in Requests(Cardinality(Events("request")) + 1) :
        RpcServerThread_Receive(request)
  \/ RpcServerThread_Handle
  \/ RpcServerThread_HandleThrow
  \/ RpcServerThread_HandleReset
  \/ RpcServerThread_Write
  \/ \E b \in CustomPackets : CommandStation_LoadCustomPacket("cli", b)

SpecServe == Init /\ [][NextServe]_vars

(***************************************************************************)
(* register_method called on the server object, before or after the task   *)
(* has registered its methods.                                             *)
(***************************************************************************)
UserNames ==
  << "user_1", "user_2", "user_3", "user_4", "user_5", "user_6" >>

\* The names a caller registers: no name, two names the task registers
\* itself, and the first user name not yet in the table (the last one when
\* all are).
RegNames(t) ==
  LET UsersIn == Cardinality({k \in 1 .. Len(UserNames) :
                                FirstMatch(t, UserNames[k], 1) # 0})
  IN  { nullptr, "echo", "system_reboot",
        UserNames[IF UsersIn < Len(UserNames) THEN UsersIn + 1
                  ELSE Len(UserNames)] }

RegHandlers == { nullptr, "user_handler" }

RpcServer_register_method(name, handler) ==
  /\ table' = register_method(table, name, handler).table
  /\ regret' = register_method(table, name, handler).ret
  /\ UNCHANGED <<rpcpc, rpcReq, rpcResp, rpcLog>>
  /\ UNCHANGED <<csvars, pmvars, isrvars, auxvars>>

NextReg ==
  \/ RpcServerThread_Register
  \/ \E name \in RegNames(table) : \E handler \in RegHandlers :
        RpcServer_register_method(name, handler)

SpecReg == Init /\ [][NextReg]_vars

(***************************************************************************)
(* The command station started and stopped over RPC while                  *)
(* command_station_params and set_dcc_bidi_dac change the RAM shadow.      *)
(***************************************************************************)
CfgObjects ==
  { [preamble_bits |-> 10],
    [preamble_bits |-> 20, bit1_duration |-> 60, bit0_duration |-> 110,
     bidi_enable |-> TRUE, trigger_first_bit |-> TRUE] }

NextCfg ==
  \/ CommandStation_Start_Check("rpc", 0)
  \/ CommandStation_Start_Body("rpc")
  \/ CommandStation_Stop_Check("rpc")
  \/ CommandStation_Stop_Clear("rpc")
  \/ CommandStation_Stop_Acquire("rpc")
  \/ CommandStation_Stop_Finish("rpc")
  \/ \E params \in CfgObjects : command_station_params_handler(params)
  \/ \E v \in DacValues : Call_set_dcc_bidi_dac(v)
  \/ Thread_Acquire
  \/ Thread_Load
  \/ Thread_Init
  \/ Thread_Select
  \/ Thread_Loop0
  \/ Thread_Teardown
  \/ Thread_Delay5

SpecCfg == Init /\ [][NextCfg]_vars

(***************************************************************************)
(* Activation: the command station started over RPC after                  *)
(* command_station_params has written the RAM shadow, and the timer        *)
(* interrupt emitting with the configuration the engine was given.         *)
(***************************************************************************)
NextAct ==
  \/ CommandStation_Start_Check("rpc", 0)
  \/ CommandStation_Start_Body("rpc")
  \/ \E params \in CfgObjects : command_station_params_handler(params)
  \/ Thread_Load
  \/ Thread_Init
  \/ Thread_Select
  \/ TIM2_IRQHandler

SpecAct == Init /\ [][NextAct]_vars

(***************************************************************************)
(* The command station running in custom-packet mode with the idle packet  *)
(* on the track while command_station_params changes the RAM shadow.       *)
(***************************************************************************)
NextLive ==
  \/ \E params \in CfgObjects : command_station_params_handler(params)
  \/ TIM2_IRQHandler

SpecLive == InitISR /\ [][NextLive]_vars

(***************************************************************************)
(* The command station running in custom-packet mode, the timer interrupt  *)
(* emitting idle packets, and one CommandStation_Stop from the RPC task.   *)
(***************************************************************************)
NextStop ==
  \/ TIM2_IRQHandler
  \/ CommandStation_Stop_Check("rpc")
  \/ CommandStation_Stop_Clear("rpc")
  \/ CommandStation_Stop_Acquire("rpc")
  \/ CommandStation_Stop_Finish("rpc")
  \/ Thread_Loop0
  \/ Thread_Teardown
  \/ Thread_Delay5
  \/ Thread_Acquire

SpecStop == InitISR /\ [][NextStop]_vars

(***************************************************************************)
(* USB CDC receive thread and the hand-over to the RPC task                *)
(* (src/unnamed/part_016 lines 840-905, src/unnamed/part_015 lines         *)
(* 1135-1147).  Bytes are numbers; data[i] of the code is data[i + 1]      *)
(* here.  One step of usbx_cdc_acm_read_thread_entry is one pass of its    *)
(* while loop with a read that returned the bytes of chunk.                *)
(***************************************************************************)
MaxStream == 7
MaxChunk == 3
CR == 13
LF == 10
Bytes == {97, 98, CR, LF}
Chunks == UNION {[1 .. n -> Bytes] : n \in 1 .. MaxChunk}

\* data[i] of a buffer: bytes never written are the zeros of static storage
ByteAt(data, i) == IF i + 1 <= Len(data) THEN data[i + 1] ELSE 0

\* the buffer after bytes were stored from data[at] on
WriteAt(data, at, bytes) ==
  LET n == IF Len(data) > at + Len(bytes) THEN Len(data) ELSE at + Len(bytes)
  IN [k \in 1 .. n |->
        IF k - 1 >= at /\ k - 1 < at + Len(bytes)
          THEN bytes[k - at]
          ELSE ByteAt(data, k - 1)]

\* tx_queue_send(&rpc_rxqueue, &msg, TX_NO_WAIT): the pointer is queued
\* unless the queue is full; the result is not looked at
tx_queue_send(q, msg) == IF Len(q) < APP_QUEUE_SIZE THEN Append(q, msg) ELSE q

\* the body of the scan loop when data[i-1], data[i] is CR LF
FrameFound(u, i) ==
  LET cur == u.current_buf
      stripped == WriteAt(u.buffer_pool[cur].data, i - 1, <<0, 0>>)
      pool1 == [u.buffer_pool EXCEPT ![cur] = [data |-> stripped, length |-> i - 1]]
      next == (cur + 1) % RX_POOL_SIZE
      remaining == u.rx_index - (i + 1)
      prev == (next - 1 + RX_POOL_SIZE) % RX_POOL_SIZE
      tail == [k \in 1 .. remaining |-> ByteAt(pool1[prev].data, i + k)]
      pool2 == IF remaining > 0
                 THEN [pool1 EXCEPT ![next].data = WriteAt(@, 0, tail)]
                 ELSE pool1
  IN [u EXCEPT !.buffer_pool = pool2,
               !.rpc_rxqueue = tx_queue_send(u.rpc_rxqueue, cur),
               !.current_buf = next,
               !.rx_index = IF remaining > 0 THEN remaining ELSE 0]

\* for (uint16_t i = 1; i < rx_index; i++), restarted at 1 after each frame
RECURSIVE ScanCRLF(_, _)
ScanCRLF(u, i) ==
  IF i >= u.rx_index
    THEN u
    ELSE IF /\ ByteAt(u.buffer_pool[u.current_buf].data, i - 1) = CR
            /\ ByteAt(u.buffer_pool[u.current_buf].data, i) = LF
           THEN CHOOSE r \in {ScanCRLF(f, 1) : f \in {FrameFound(u, i)}} : TRUE
           ELSE ScanCRLF(u, i + 1)

\* the pass with a read that is not limited to the room left in the buffer
usbx_cdc_acm_read_thread_entry_Uncapped(chunk) ==
  /\ Len(usb.sent) + Len(chunk) <= MaxStream
  /\ LET cur == usb.current_buf
         rx == usb.rx_index + Len(chunk)
         read == WriteAt(WriteAt(usb.buffer_pool[cur].data, usb.rx_index, chunk),
                         rx, <<0>>)
         u1 == [usb EXCEPT !.buffer_pool[cur].data = read, !.rx_index = rx]
         u2 == ScanCRLF(u1, 1)
     IN usb' = [u2 EXCEPT !.rx_index = IF @ >= RX_BUFFER_SIZE - 1 THEN 0 ELSE @,
                          !.sent = usb.sent \o chunk]
  /\ UNCHANGED <<csvars, pmvars, isrvars, table, regret, rpcpc, rpcReq, rpcResp,
                 rpcLog, adc, dec, loadArg>>

usbx_cdc_acm_read_thread_entry(chunk) ==
  /\ Len(usb.sent) + Len(chunk) <= MaxStream
  /\ Len(chunk) <= RX_BUFFER_SIZE - usb.rx_index - 1
  /\ LET cur == usb.current_buf
         rx == usb.rx_index + Len(chunk)
         read == WriteAt(WriteAt(usb.buffer_pool[cur].data, usb.rx_index, chunk),
                         rx, <<0>>)
         u1 == [usb EXCEPT !.buffer_pool[cur].data = read, !.rx_index = rx]
         u2 == ScanCRLF(u1, 1)
     IN usb' = [u2 EXCEPT !.rx_index = IF @ >= RX_BUFFER_SIZE - 1 THEN 0 ELSE @,
                          !.sent = usb.sent \o chunk]
  /\ UNCHANGED <<csvars, pmvars, isrvars, table, regret, rpcpc, rpcReq, rpcResp,
                 rpcLog, adc, dec, loadArg>>

\* tx_queue_receive and std::string request(msg->data, msg->length)
RpcServerThread_TakeMessage ==
  /\ usb.rpc_rxqueue # <<>>
  /\ LET msg == usb.buffer_pool[Head(usb.rpc_rxqueue)]
         request == [k \in 1 .. msg.length |-> ByteAt(msg.data, k - 1)]
     IN usb' = [usb EXCEPT !.rpc_rxqueue = Tail(@),
                           !.delivered = Append(@, request)]
  /\ UNCHANGED <<csvars, pmvars, isrvars, table, regret, rpcpc, rpcReq, rpcResp,
                 rpcLog, adc, dec, loadArg>>

NextUsb ==
  \/ \E chunk \in Chunks : usbx_cdc_acm_read_thread_entry(chunk)
  \/ RpcServerThread_TakeMessage

SpecUsb == Init /\ [][NextUsb]_vars

(***************************************************************************)
(* Analog manager (src/Core/Src/analog_manager.c lines 143-240) and the    *)
(* RPC feedback handlers (src/unnamed/part_015 lines 519-553).  A task is  *)
(* in get_voltage_feedback_mv or get_current_feedback_ma, which call       *)
(* analog_manager_get_value(1, 6, &adc_value) and (2, 2, &adc_value);      *)
(* value[c] is that adc_value.                                             *)
(***************************************************************************)
Feedbacks == {"voltage", "current"}
AdcSamples == {1, 2}

\* entry: uint16_t adc_value = 0, the channel is valid, osMutexAcquire begins
analog_manager_get_value_Enter(c, what) ==
  /\ adc.pc[c] = "idle"
  /\ adc' = [adc EXCEPT !.pc[c] = "acquire", !.what[c] = what,
                        !.value[c] = 0, !.ret[c] = 0,
                        !.resp = IF c = "rpc" THEN NoResponse ELSE @]
  /\ UNCHANGED <<csvars, pmvars, isrvars, table, regret, rpcpc, rpcReq, rpcResp,
                 rpcLog, usb, dec, loadArg>>

\* osMutexAcquire(adc_mutex, 100) == osOK
analog_manager_get_value_Acquire(c) ==
  /\ adc.pc[c] = "acquire"
  /\ adc.owner = "none"
  /\ adc' = [adc EXCEPT !.owner = c, !.pc[c] = "convert"]
  /\ UNCHANGED <<csvars, pmvars, isrvars, table, regret, rpcpc, rpcReq, rpcResp,
                 rpcLog, usb, dec, loadArg>>

\* *value = average_adc_readings(...); osMutexRelease(adc_mutex); return 0
analog_manager_get_value_Convert(c, sample) ==
  /\ adc.pc[c] = "convert"
  /\ adc' = [adc EXCEPT !.dr = sample, !.value[c] = sample, !.owner = "none",
                        !.ret[c] = 0, !.pc[c] = "return"]
  /\ UNCHANGED <<csvars, pmvars, isrvars, table, regret, rpcpc, rpcReq, rpcResp,
                 rpcLog, usb, dec, loadArg>>

analog_manager_get_value_Timeout_Converts(c) ==
  /\ adc.pc[c] = "acquire"
  /\ adc.owner \notin {"none", c}
  /\ \E sample \in AdcSamples :
       adc' = [adc EXCEPT !.dr = sample, !.value[c] = sample,
                          !.ret[c] = -1, !.pc[c] = "return"]
  /\ UNCHANGED <<csvars, pmvars, isrvars, table, regret, rpcpc, rpcReq, rpcResp,
                 rpcLog, usb, dec, loadArg>>

\* osMutexAcquire did not return osOK within the 100 ticks: return -1
analog_manager_get_value_Timeout(c) ==
  /\ adc.pc[c] = "acquire"
  /\ adc.owner \notin {"none", c}
  /\ adc' = [adc EXCEPT !.ret[c] = -1, !.pc[c] = "return"]
  /\ UNCHANGED <<csvars, pmvars, isrvars, table, regret, rpcpc, rpcReq, rpcResp,
                 rpcLog, usb, dec, loadArg>>

\* get_voltage_feedback_mv / get_current_feedback_ma return to their caller;
\* in the RPC task the handler builds its response
feedback_handler_Return(c) ==
  /\ adc.pc[c] = "return"
  /\ adc' = [adc EXCEPT
       !.pc[c] = "idle",
       !.resp = IF c # "rpc"
                  THEN @
                  ELSE IF adc.ret[c] # 0
                         THEN error_response("Failed to read " \o adc.what[c]
                                               \o " feedback")
                         ELSE [status |-> "ok", message |-> ""]]
  /\ UNCHANGED <<csvars, pmvars, isrvars, table, regret, rpcpc, rpcReq, rpcResp,
                 rpcLog, usb, dec, loadArg>>

NextAdc ==
  \E c \in Callers :
    \/ \E what \in Feedbacks : analog_manager_get_value_Enter(c, what)
    \/ analog_manager_get_value_Acquire(c)
    \/ \E sample \in AdcSamples : analog_manager_get_value_Convert(c, sample)
    \/ analog_manager_get_value_Timeout(c)
    \/ feedback_handler_Return(c)

SpecAdc == Init /\ [][NextAdc]_vars

(***************************************************************************)
(* Decoder controller (src/unnamed/part_013 lines 143-212) and its RPC     *)
(* handlers (src/unnamed/part_015 lines 246-266).  osSemaphoreRelease     *)
(* raises the count of decoderStart_sem up to its maximum of 1.            *)
(***************************************************************************)
\* decoder_start_handler: Decoder_Start() returns nothing, the answer is ok
decoder_start_handler ==
  /\ dec.cpc = "idle"
  /\ Len(dec.calls) < MaxLog
  /\ dec' = [dec EXCEPT
       !.semCount = IF ~dec.decoderRunning THEN (IF @ < 1 THEN @ + 1 ELSE @) ELSE @,
       !.resp = [status |-> "ok", message |-> "Decoder started"],
       !.calls = Append(@, "decoder_start")]
  /\ UNCHANGED <<csvars, pmvars, isrvars, table, regret, rpcpc, rpcReq, rpcResp,
                 rpcLog, usb, adc, loadArg>>

\* decoder_stop_handler up to osSemaphoreAcquire inside Decoder_Stop, or to
\* its end when the decoder is not running
decoder_stop_handler_Call ==
  /\ dec.cpc = "idle"
  /\ Len(dec.calls) < MaxLog
  /\ dec' = IF dec.decoderRunning
              THEN [dec EXCEPT !.decoderRunning = FALSE, !.cpc = "acquire",
                               !.resp = NoResponse,
                               !.calls = Append(@, "decoder_stop")]
              ELSE [dec EXCEPT !.resp = [status |-> "ok",
                                         message |-> "Decoder stopped"],
                               !.calls = Append(@, "decoder_stop")]
  /\ UNCHANGED <<csvars, pmvars, isrvars, table, regret, rpcpc, rpcReq, rpcResp,
                 rpcLog, usb, adc, loadArg>>

\* osSemaphoreAcquire(decoderStart_sem, osWaitForever) returns; the answer
decoder_stop_handler_Finish ==
  /\ dec.cpc = "acquire"
  /\ dec.semCount > 0
  /\ dec' = [dec EXCEPT !.semCount = @ - 1, !.cpc = "idle",
                        !.resp = [status |-> "ok", message |-> "Decoder stopped"]]
  /\ UNCHANGED <<csvars, pmvars, isrvars, table, regret, rpcpc, rpcReq, rpcResp,
                 rpcLog, usb, adc, loadArg>>

DecoderThread_Acquire ==
  /\ dec.tpc = "blocked"
  /\ dec.semCount > 0
  /\ dec' = [dec EXCEPT !.semCount = @ - 1, !.tpc = "init"]
  /\ UNCHANGED <<csvars, pmvars, isrvars, table, regret, rpcpc, rpcReq, rpcResp,
                 rpcLog, usb, adc, loadArg>>

\* decoder.init(), capture interrupt enabled, decoderRunning = true
DecoderThread_Init ==
  /\ dec.tpc = "init"
  /\ dec' = [dec EXCEPT !.timIT = TRUE, !.decoderRunning = TRUE, !.tpc = "run"]
  /\ UNCHANGED <<csvars, pmvars, isrvars, table, regret, rpcpc, rpcReq, rpcResp,
                 rpcLog, usb, adc, loadArg>>

\* while (decoderRunning) left: interrupt off, semaphore released
DecoderThread_Teardown ==
  /\ dec.tpc = "run"
  /\ ~dec.decoderRunning
  /\ dec' = [dec EXCEPT !.timIT = FALSE, !.semCount = (IF @ < 1 THEN @ + 1 ELSE @),
                        !.tpc = "delay5"]
  /\ UNCHANGED <<csvars, pmvars, isrvars, table, regret, rpcpc, rpcReq, rpcResp,
                 rpcLog, usb, adc, loadArg>>

DecoderThread_Delay5 ==
  /\ dec.tpc = "delay5"
  /\ dec' = [dec EXCEPT !.tpc = "blocked"]
  /\ UNCHANGED <<csvars, pmvars, isrvars, table, regret, rpcpc, rpcReq, rpcResp,
                 rpcLog, usb, adc, loadArg>>

NextDec ==
  \/ decoder_start_handler
  \/ decoder_stop_handler_Call
  \/ decoder_stop_handler_Finish
  \/ DecoderThread_Acquire
  \/ DecoderThread_Init
  \/ DecoderThread_Teardown
  \/ DecoderThread_Delay5

SpecDec == Init /\ [][NextDec]_vars

(***************************************************************************)
(* command_station_start_handler (src/unnamed/part_015 lines 102-141).     *)
(* p is the value of params["loop"].  json::get<uint8_t>() converts the    *)
(* stored 64-bit unsigned number with static_cast<uint8_t>, that is modulo *)
(* 256.  The handler then calls CommandStation_Start(loop): up to its test *)
(* of commandStationRunning in this step, CommandStation_Start_Body after  *)
(* it.  Once the test has passed CommandStation_Start returns true, so the *)
(* response is known in this step.                                         *)
(***************************************************************************)
LoopParams ==
  {[type |-> "absent", v |-> 0], [type |-> "string", v |-> 0],
   [type |-> "integer", v |-> -1]} \cup
  {[type |-> "boolean", v |-> b] : b \in {0, 1}} \cup
  {[type |-> "unsigned", v |-> n] : n \in {0, 1, 3, 4, 255, 256, 259, 260}}

get_uint8(n) == n % 256

command_station_start_handler(p) ==
  LET loop == IF p.type = "unsigned" THEN get_uint8(p.v)
              ELSE IF p.type = "boolean" THEN (IF p.v = 1 THEN 1 ELSE 0)
              ELSE 0
      rejected == IF p.type = "unsigned" /\ loop > 3
                    THEN "loop must be 0, 1, 2, or 3"
                  ELSE IF p.type \in {"absent", "unsigned", "boolean"}
                    THEN nullptr
                  ELSE "loop must be a number (0-3) or boolean"
  IN /\ cpc["rpc"] = "idle"
     /\ CallAdmitted
     /\ IF rejected # nullptr
          THEN /\ rpcResp' = error_response(rejected)
               /\ UNCHANGED <<cpc, carg, cres, callLog>>
          ELSE IF ~commandStationRunning
            THEN /\ cpc' = [cpc EXCEPT !["rpc"] = "start_body"]
                 /\ carg' = [carg EXCEPT !["rpc"] = loop]
                 /\ rpcResp' = [status |-> "ok", message |-> "Command station started"]
                 /\ UNCHANGED <<cres, callLog>>
            ELSE /\ cres' = [cres EXCEPT !["rpc"] = FALSE]
                 /\ callLog' = LogCall("rpc", "start", loop, FALSE)
                 /\ rpcResp' = error_response("Command station is already running")
                 /\ UNCHANGED <<cpc, carg>>
     /\ UNCHANGED <<table, regret, rpcpc, rpcReq, rpcLog, auxvars, pmvars, isrvars,
                    commandStationRunning, commandStationLoop, semCount, tpc,
                    loopStep, BR_ENABLE, BIDIR_EN, timIT, timPWM, customPacket,
                    customPacketLoaded, customPacketTrigger, customPacketCount,
                    customPacketDelay, zerobitOverrideMask, zerobitDeltaP,
                    zerobitDeltaN, dac_value, trigger_first_bit, tlocal,
                    engineCfg, txq>>

NextStart ==
  \/ \E p \in LoopParams : command_station_start_handler(p)
  \/ CommandStation_Start_Body("rpc")
  \/ Thread_Load
  \/ Thread_Init
  \/ Thread_Select

SpecStart == Init /\ [][NextStart]_vars

(***************************************************************************)
(* The parameter manager called from two tasks.  parameter_manager.h       *)
(* (lines 148-151) promises mutex protection; parameter_manager.c takes no *)
(* mutex, so a task may run parameter_manager_restore() (lines 293-350)    *)
(* while another task is inside the programming loop of                    *)
(* parameter_manager_save() (lines 264-279).  Both use the one static      *)
(* g_flashStorage.                                                         *)
(***************************************************************************)
parameter_manager_restore_DuringSave ==
  /\ pmpc = "program"
  /\ LET r == RestoreResult(g_initialized, g_paramData, g_modified,
                            g_flashStorage, flash)
     IN  /\ g_paramData' = r.data
         /\ g_modified' = r.modified
         /\ g_flashStorage' = r.staging
         /\ pmret' = [op |-> "restore", ret |-> r.ret]
  /\ UNCHANGED <<g_initialized, flash, pmpc, saveIdx, pm_zerobit>>
  /\ UNCHANGED <<csvars, isrvars, rpcvars>>

NextConc ==
  \/ parameter_manager_restore
  \/ parameter_manager_restore_DuringSave
  \/ \E ok \in BOOLEAN : parameter_manager_save_erase(ok)
  \/ \E ok \in BOOLEAN : parameter_manager_save_program(ok)
  \/ \E p \in ParamObjects : command_station_params_handler(p)

SpecConc == InitPM /\ [][NextConc]_vars

(***************************************************************************)
(* Termination of CommandStation_Stop.  The station in custom-packet mode, *)
(* started by the RPC task and stopped by the RPC task or the CLI task     *)
(* (src/Core/Src/cli_app.c lines 65-82).  A task that is ready runs in the *)
(* end: the steps of CommandStationThread and the steps inside             *)
(* CommandStation_Stop are weakly fair; whether and when Start, load and   *)
(* transmit requests arrive is up to the callers.                          *)
(***************************************************************************)
NextHalt ==
  \/ CommandStation_Start_Check("rpc", 0)
  \/ CommandStation_Start_Body("rpc")
  \/ \E c \in Callers : CommandStation_Stop_Check(c)
  \/ \E c \in Callers : CommandStation_Stop_Clear(c)
  \/ \E c \in Callers : CommandStation_Stop_Acquire(c)
  \/ \E c \in Callers : CommandStation_Stop_Finish(c)
  \/ \E b \in CustomPackets : CommandStation_LoadCustomPacket("rpc", b)
  \/ \E n \in 1 .. MaxCount : CommandStation_TriggerTransmit("rpc", n, 100)
  \/ Thread_Acquire
  \/ Thread_Load
  \/ Thread_Init
  \/ Thread_Select
  \/ Thread_Loop0
  \/ Thread_Burst
  \/ Thread_Teardown
  \/ Thread_Delay5

FairHalt ==
  /\ WF_vars(Thread_Acquire \/ Thread_Load \/ Thread_Init \/ Thread_Select
             \/ Thread_Loop0 \/ Thread_Burst \/ Thread_Teardown \/ Thread_Delay5)
  /\ \A c \in Callers :
       WF_vars(CommandStation_Stop_Clear(c) \/ CommandStation_Stop_Acquire(c)
               \/ CommandStation_Stop_Finish(c))

SpecHalt == Init /\ [][NextHalt]_vars /\ FairHalt

(***************************************************************************)
(* The bridge and BiDi enable pins: the station configured through         *)
(* command_station_params (BiDi on or off), started and stopped by the RPC *)
(* task in mode 0, with the timer interrupt emitting idle packets and      *)
(* their cutouts.                                                          *)
(***************************************************************************)
NextPins ==
  \/ \E params \in CfgObjects : command_station_params_handler(params)
  \/ CommandStation_Start_Check("rpc", 0)
  \/ CommandStation_Start_Body("rpc")
  \/ CommandStation_Stop_Check("rpc")
  \/ CommandStation_Stop_Clear("rpc")
  \/ CommandStation_Stop_Acquire("rpc")
  \/ CommandStation_Stop_Finish("rpc")
  \/ Thread_Acquire
  \/ Thread_Load
  \/ Thread_Init
  \/ Thread_Select
  \/ Thread_Loop0
  \/ Thread_Teardown
  \/ Thread_Delay5
  \/ TIM2_IRQHandler

SpecPins == Init /\ [][NextPins]_vars

(***************************************************************************)
(* CommandStation_LoadCustomPacket statement by statement (SUSI_master.c    *)
(* lines 849-862).  The caller is the RPC server task, priority             *)
(* osPriorityBelowNormal4; the controller task has osPriorityHigh and       *)
(* runs as soon as its osDelay expires, wherever the caller is.  No lock    *)
(* is taken around customPacket.                                            *)
(***************************************************************************)
\* lines 850-854: the argument check, then customPacket.clear()
CommandStation_LoadCustomPacket_Clear(c, bytes) ==
  /\ cpc[c] = "idle"
  /\ Len(bytes) > 0
  /\ customPacket' = <<>>
  /\ loadArg' = [loadArg EXCEPT ![c] = [bytes |-> bytes, i |-> 0]]
  /\ cpc' = [cpc EXCEPT ![c] = "load_push"]
  /\ UNCHANGED <<table, regret, rpcpc, rpcReq, rpcResp, rpcLog, usb, adc, dec,
                 pmvars, isrvars, commandStationRunning, commandStationLoop,
                 semCount, tpc, loopStep, carg, cres, callLog, BR_ENABLE,
                 BIDIR_EN, timIT, timPWM, customPacketLoaded,
                 customPacketTrigger, customPacketCount, customPacketDelay,
                 zerobitOverrideMask, zerobitDeltaP, zerobitDeltaN, dac_value,
                 trigger_first_bit, tlocal, engineCfg, txq>>

\* lines 855-861: one push_back of the loop, or the two flags and the return
CommandStation_LoadCustomPacket_Push(c) ==
  /\ cpc[c] = "load_push"
  /\ LET a == loadArg[c]
     IN  IF a.i < Len(a.bytes)
         THEN /\ customPacket' = Append(customPacket, a.bytes[a.i + 1])
              /\ loadArg' = [loadArg EXCEPT ![c].i = a.i + 1]
              /\ UNCHANGED <<cpc, customPacketLoaded, customPacketTrigger>>
         ELSE /\ customPacketLoaded' = TRUE
              /\ customPacketTrigger' = FALSE
              /\ cpc' = [cpc EXCEPT ![c] = "idle"]
              /\ loadArg' = [loadArg EXCEPT ![c] = LoadBoot[c]]
              /\ UNCHANGED customPacket
  /\ UNCHANGED <<table, regret, rpcpc, rpcReq, rpcResp, rpcLog, usb, adc, dec,
                 pmvars, isrvars, commandStationRunning, commandStationLoop,
                 semCount, tpc, loopStep, carg, cres, callLog, BR_ENABLE,
                 BIDIR_EN, timIT, timPWM, customPacketCount, customPacketDelay,
                 zerobitOverrideMask, zerobitDeltaP, zerobitDeltaN, dac_value,
                 trigger_first_bit, tlocal, engineCfg, txq>>

\* a running controller in custom-packet mode, one RPC caller loading and
\* triggering, the engine draining its queue
NextLoad ==
  \/ \E b \in CustomPackets : CommandStation_LoadCustomPacket_Clear("rpc", b)
  \/ CommandStation_LoadCustomPacket_Push("rpc")
  \/ \E n \in 1 .. MaxCount : CommandStation_TriggerTransmit("rpc", n, 100)
  \/ Thread_Loop0
  \/ Thread_Burst
  \/ TIM2_IRQHandler

SpecLoad == InitISR /\ [][NextLoad]_vars

(***************************************************************************)
(* command_station_params_handler with its type checks (part_015, lines    *)
(* 268-366).  A request is the params value: whether it is an object, the  *)
(* keys it holds with their values, and the keys whose JSON value has the  *)
(* wrong type.  The keys are handled in the order of the source; each one  *)
(* is checked and then stored by its setter before the next is looked at,  *)
(* and the first failure returns.                                          *)
(***************************************************************************)
ParamKeys ==
  <<"preamble_bits", "bit1_duration", "bit0_duration", "bidi_enable",
    "trigger_first_bit">>

TypeMessage ==
  [preamble_bits |-> "preamble_bits must be a positive integer",
   bit1_duration |-> "bit1_duration must be a positive integer",
   bit0_duration |-> "bit0_duration must be a positive integer",
   bidi_enable |-> "bidi_enable must be a boolean",
   trigger_first_bit |-> "trigger_first_bit must be a boolean"]

SetMessage ==
  [preamble_bits |-> "Failed to set preamble_bits",
   bit1_duration |-> "Failed to set bit1_duration",
   bit0_duration |-> "Failed to set bit0_duration",
   bidi_enable |-> "Failed to set bidi_enable",
   trigger_first_bit |-> "Failed to set trigger_first_bit"]

\* the params values a client sends
ParamRequests ==
  LET objs == { [preamble_bits |-> 20],
                [preamble_bits |-> 20, bit1_duration |-> 60],
                [bit1_duration |-> 60, bit0_duration |-> 110],
                [preamble_bits |-> 16, bit0_duration |-> 120,
                 bidi_enable |-> TRUE],
                [bit1_duration |-> 55, trigger_first_bit |-> FALSE],
                [preamble_bits |-> 20, bit1_duration |-> 60,
                 bit0_duration |-> 110, bidi_enable |-> TRUE,
                 trigger_first_bit |-> TRUE] }
  IN  {[is_object |-> FALSE, obj |-> [preamble_bits |-> 20], bad |-> {}]} \cup
      {[is_object |-> TRUE, obj |-> o, bad |-> b] :
         o \in objs, b \in {{}, {"preamble_bits"}, {"bit1_duration"},
                            {"bit0_duration"}, {"bidi_enable"},
                            {"trigger_first_bit"}}}

command_station_params_handler_Checked(req) ==
  LET present == {i \in 1 .. Len(ParamKeys) : ParamKeys[i] \in DOMAIN req.obj}
      \* the keys at which the handler returns an error
      failing == {i \in present : ParamKeys[i] \in req.bad \/ ~g_initialized}
      stop == IF failing = {} THEN Len(ParamKeys) + 1
              ELSE CHOOSE i \in failing : \A j \in failing : i <= j
      done == {ParamKeys[i] : i \in {j \in present : j < stop}}
      applied == [k \in done |-> req.obj[k]]
  IN  /\ pmpc = "idle"
      /\ IF ~req.is_object
         THEN /\ rpcResp' = error_response("Params must be an object")
              /\ UNCHANGED <<g_paramData, g_modified, pmret>>
         ELSE /\ g_paramData' = ParamsData(g_paramData, applied)
              /\ g_modified' = (g_modified \/ done # {})
              /\ pmret' = IF stop \in failing /\ ParamKeys[stop] \notin req.bad
                            THEN [op |-> "set", ret |-> -1]
                          ELSE IF done # {} THEN [op |-> "set", ret |-> 0]
                          ELSE pmret
              /\ rpcResp' =
                   IF stop \notin failing
                     THEN [status |-> "ok",
                           message |-> "Command station parameters updated"]
                   ELSE IF ParamKeys[stop] \in req.bad
                     THEN error_response(TypeMessage[ParamKeys[stop]])
                   ELSE error_response(SetMessage[ParamKeys[stop]])
      /\ UNCHANGED <<g_initialized, g_flashStorage, flash, pmpc, saveIdx,
                     pm_zerobit>>
      /\ UNCHANGED <<csvars, isrvars, table, regret, rpcpc, rpcReq, rpcLog,
                     auxvars>>

NextParams ==
  \E req \in ParamRequests : command_station_params_handler_Checked(req)

SpecParams == Init /\ [][NextParams]_vars

(***************************************************************************)
(* command_station_transmit_packet_handler (part_015, lines 216-244): the  *)
(* count check, the call of CommandStation_TriggerTransmit, which returns  *)
(* nothing and acts only when a packet is loaded (SUSI_master.c, lines     *)
(* 864-870), and the response.                                             *)
(***************************************************************************)
TransmitParams ==
  {[count |-> n, delay_ms |-> d] : n \in 0 .. MaxCount, d \in {50, 100}}

command_station_transmit_packet_Call(p) ==
  /\ cpc["rpc"] = "idle"
  /\ IF p.count = 0
     THEN /\ rpcResp' = error_response("Count must be greater than 0")
          /\ UNCHANGED <<customPacketCount, customPacketDelay,
                         customPacketTrigger>>
     ELSE /\ IF customPacketLoaded
             THEN /\ customPacketCount' = p.count
                  /\ customPacketDelay' = p.delay_ms
                  /\ customPacketTrigger' = TRUE
             ELSE UNCHANGED <<customPacketCount, customPacketDelay,
                              customPacketTrigger>>
          /\ rpcResp' = [status |-> "ok",
                         message |-> "Packet transmission triggered"]
  /\ UNCHANGED <<table, regret, rpcpc, rpcReq, rpcLog, auxvars, pmvars,
                 isrvars, commandStationRunning, commandStationLoop, semCount,
                 tpc, loopStep, cpc, carg, cres, callLog, BR_ENABLE, BIDIR_EN,
                 timIT, timPWM, customPacket, customPacketLoaded,
                 zerobitOverrideMask, zerobitDeltaP, zerobitDeltaN, dac_value,
                 trigger_first_bit, tlocal, engineCfg, txq>>

NextXmit ==
  \/ \E p \in TransmitParams : command_station_transmit_packet_Call(p)
  \/ \E b \in CustomPackets : CommandStation_LoadCustomPacket("rpc", b)
  \/ CommandStation_Start_Check("rpc", 0)
  \/ CommandStation_Start_Body("rpc")
  \/ Thread_Load
  \/ Thread_Init
  \/ Thread_Select
  \/ Thread_Loop0
  \/ Thread_Burst

SpecXmit == Init /\ [][NextXmit]_vars

(***************************************************************************)
(* Start/Stop policy.                                                      *)
(***************************************************************************)
\* the start semaphore is released once: one more token, or one blocked task
\* handed the token
ReleasedOnce ==
  \/ semCount' = semCount + 1
  \/ semCount' = semCount /\ tpc = "blocked" /\ tpc' = "load"
  \/ /\ semCount' = semCount
     /\ \E w \in Callers : cpc[w] = "stop_blocked" /\ cpc'[w] = "stop_finish"

\* C1: CommandStation_Start(loop) returns false and changes neither the loop
\* selector, the start semaphore nor the output pins when the command station
\* is already running; otherwise it returns true, the running flag is true
\* when it returns and the start semaphore has been released exactly once.
C1_StartContract ==
  [][\A c \in Callers :
       /\ (cpc[c] = "idle" /\ cpc'[c] = "idle" /\ Len(callLog') > Len(callLog)
           /\ callLog'[Len(callLog')].who = c
           /\ callLog'[Len(callLog')].op = "start")
          => /\ commandStationRunning
             /\ cres'[c] = FALSE
             /\ UNCHANGED <<commandStationLoop, semCount, BR_ENABLE, BIDIR_EN>>
       /\ CommandStation_Start_Body(c)
          => /\ cres'[c] = TRUE
             /\ commandStationRunning'
             /\ ReleasedOnce]_vars

\* C2: CommandStation_Stop() returns false and changes no state when the
\* command station is not running; otherwise, when it returns true, the
\* running flag is clear, the controller task has stopped the timer and
\* disabled the update interrupt, the bridge is disabled, the semaphore count
\* is 0 and the task is on its way back to (or blocked on) the semaphore.
C2_StopContract ==
  [][\A c \in Callers :
       /\ (cpc[c] = "idle" /\ cpc'[c] = "idle" /\ Len(callLog') > Len(callLog)
           /\ callLog'[Len(callLog')].who = c
           /\ callLog'[Len(callLog')].op = "stop")
          => /\ ~commandStationRunning
             /\ cres'[c] = FALSE
             /\ UNCHANGED <<commandStationRunning, commandStationLoop,
                            semCount, tpc, BR_ENABLE, BIDIR_EN, timIT, timPWM>>
       /\ CommandStation_Stop_Finish(c)
          => /\ cres'[c] = TRUE
             /\ ~commandStationRunning'
             /\ ~timPWM' /\ ~timIT'
             /\ ~BR_ENABLE'
             /\ semCount' = 0
             /\ tpc' \in {"delay5", "acquire", "blocked"}]_vars

\* C3: whatever the timing, the RPC sequence start{loop:0}, start{loop:0},
\* stop, stop is answered ok, error, ok, error.
C3_S2Responses ==
  (/\ Len(callLog) = 4
   /\ \A i \in 1 .. 4 : callLog[i].who = "rpc" /\ callLog[i].arg = 0
   /\ <<callLog[1].op, callLog[2].op, callLog[3].op, callLog[4].op>>
        = <<"start", "start", "stop", "stop">>)
  => <<callLog[1].ret, callLog[2].ret, callLog[3].ret, callLog[4].ret>>
       = <<TRUE, FALSE, TRUE, FALSE>>

\* C4: when a CommandStation_Stop that found the station running returns,
\* the override map is cleared: mask = 0, deltaP = 0, deltaN = 0.
C4_StopClearsOverride ==
  [][\A c \in Callers :
       CommandStation_Stop_Finish(c)
       => /\ zerobitOverrideMask' = {}
          /\ zerobitDeltaP' = 0
          /\ zerobitDeltaN' = 0]_vars

\* the controller state of a fresh boot (CSInit), as far as claim C5 lists it
ControllerBootState ==
  /\ commandStationRunning = FALSE
  /\ semCount = 0
  /\ commandStationLoop = 0
  /\ BR_ENABLE = FALSE
  /\ BIDIR_EN = FALSE
  /\ timIT = FALSE
  /\ customPacketTrigger = FALSE
  /\ zerobitOverrideMask = {}
  /\ zerobitDeltaP = 0
  /\ zerobitDeltaN = 0

\* C5: after one successful Start followed by one successful Stop, once the
\* controller task is back at its semaphore, every controller state variable
\* has its value of a fresh boot.
C5_StartStopSymmetry ==
  (/\ Len(callLog) = 2
   /\ callLog[1].op = "start" /\ callLog[1].ret
   /\ callLog[2].op = "stop" /\ callLog[2].ret
   /\ \A c \in Callers : cpc[c] = "idle"
   /\ tpc = "blocked")
  => ControllerBootState

SingleBitOverride ==
  /\ Cardinality(zerobitOverrideMask) = 1
  /\ zerobitDeltaP > 0
  /\ zerobitDeltaN = 0

\* C7 as stated: with mask = (1<<k) and deltaP = +D, the positive half-period
\* of bit k is lengthened by D and every other half-period (bits k-1 and k+1
\* included) is the engine's value.
C7_OverrideLocality ==
  [][(TIM2_IRQHandler /\ SingleBitOverride)
     => ARR' = IF isrBit' \in zerobitOverrideMask /\ trackP'
               THEN isrNominal' + zerobitDeltaP
               ELSE isrNominal']_vars

\* C7 amended: with mask = (1<<k) and deltaP = +D, the positive half-period
\* of bit k is lengthened by D when bit k is a logical 0 and is the engine's
\* value when it is a logical 1; every other half-period (bits k-1 and k+1
\* included) is the engine's value.
C7_ZeroBitLocality ==
  [][(TIM2_IRQHandler /\ SingleBitOverride)
     => ARR' = IF /\ isrBit' \in zerobitOverrideMask
                  /\ trackP'
                  /\ isrNominal' >= DCC_TX_MIN_BIT_0_TIMING
               THEN isrNominal' + zerobitDeltaP
               ELSE isrNominal']_vars

\* bit k, a logical 0, has been emitted on the positive phase lengthened by D
C7_Witness ==
  /\ SingleBitOverride
  /\ isrBit \in zerobitOverrideMask
  /\ trackP
  /\ isrNominal >= DCC_TX_MIN_BIT_0_TIMING
  /\ ARR = isrNominal + zerobitDeltaP

\* C8: parameter_manager_restore() copies the flash payload into the RAM
\* shadow and returns 0 exactly when the block in flash has magic
\* 0x50415241, version 1, data size 512 and a stored CRC equal to the CRC-32
\* of its payload; otherwise it returns -1 and the RAM shadow is unchanged.
C8_RestoreContract ==
  [][parameter_manager_restore =>
       IF /\ <<flash[1], flash[2]>> = <<21057, 20545>>
          /\ <<flash[3], flash[4]>> = <<1, 0>>
          /\ <<flash[7], flash[8]>> = <<512, 0>>
          /\ <<flash[5], flash[6]>> = calculate_crc32(DataOfBlock(flash))
       THEN /\ pmret'.ret = 0
            /\ \A i \in 1 .. PayloadBytes :
                 g_paramData'[i] = IF i % 2 = 1
                                   THEN flash[HDR + ((i + 1) \div 2)] % 256
                                   ELSE flash[HDR + (i \div 2)] \div 256
       ELSE /\ pmret'.ret = -1
            /\ g_paramData' = g_paramData]_vars

\* a restore() has succeeded and replaced parameters that had been modified
\* in RAM by the ones saved in flash
C8_Witness ==
  /\ pmret = [op |-> "restore", ret |-> 0]
  /\ g_paramData = DataOfBlock(flash)
  /\ get_dcc_preamble_bits(0) = 20
  /\ get_dcc_bidi_dac(0) = 500

\* C9: a reset that interrupts save() after the erase has begun and before
\* the last halfword is programmed finds the magic word in flash still
\* erased, and the start-up that follows runs with the compiled defaults.
C9_InterruptedSave ==
  [][(Reboot /\ pmpc = "program") =>
       /\ <<flash[1], flash[2]>> = <<ERASED, ERASED>>
       /\ g_paramData' = DefaultData]_vars

\* what the six timing getters return
TimingConfig ==
  [preamble_bits |-> get_dcc_preamble_bits(0),
   bit1_duration |-> get_dcc_bit1_duration(0),
   bit0_duration |-> get_dcc_bit0_duration(0),
   bidi_enable |-> get_dcc_bidi_enable(0),
   bidi_dac |-> get_dcc_bidi_dac(0),
   trigger_first_bit |-> get_dcc_trigger_first_bit(0)]

\* C10: when the last operation completed before a reset is a successful
\* save() and no other save() is under way, the getters return after the
\* reset and its restore() exactly what they returned before it.
C10_RoundTrip ==
  [][(Reboot /\ pmpc = "idle" /\ pmret = [op |-> "save", ret |-> 0]) =>
       TimingConfig' = TimingConfig]_vars

\* after a reset the parameters set through the setters and saved are the
\* ones the getters return
C10_Witness ==
  /\ pmret = [op |-> "init", ret |-> 0]
  /\ ~g_modified
  /\ flash = StagedBlock(g_paramData)
  /\ TimingConfig = [preamble_bits |-> 20, bit1_duration |-> 60,
                     bit0_duration |-> 110, bidi_enable |-> 1,
                     bidi_dac |-> 500, trigger_first_bit |-> 1]

\* C11: restore() of a block whose header is valid and whose payload fails
\* the CRC check fails with a result that differs from the one it gives for
\* a magic mismatch and from the one it gives for a version mismatch.
C11_CrcMismatchReported ==
  [][(/\ parameter_manager_restore
      /\ BlockMagic(flash) = MAGIC_NUMBER
      /\ BlockVersion(flash) = U32(VERSION)
      /\ BlockSize(flash) = U32(PARAM_DATA_SIZE)
      /\ calculate_crc32(DataOfBlock(flash)) # BlockCrc(flash)) =>
       /\ pmret'.ret # 0
       /\ pmret'.ret # RestoreResult(g_initialized, g_paramData, g_modified,
                                     g_flashStorage,
                                     [flash EXCEPT ![1] = 0]).ret
       /\ pmret'.ret # RestoreResult(g_initialized, g_paramData, g_modified,
                                     g_flashStorage,
                                     [flash EXCEPT ![3] = VERSION + 1]).ret]_vars

\* C12: parameter_manager_init(0) on an uninitialised manager whose sector
\* does not hold a valid block (blank, or wrong magic, version, size or
\* CRC) leaves the compiled defaults in the RAM shadow, marks the manager
\* initialised and returns 0.
C12_InitFallsBack ==
  [][(/\ parameter_manager_init(FALSE)
      /\ ~g_initialized
      /\ \/ <<flash[1], flash[2]>> # <<21057, 20545>>
         \/ <<flash[3], flash[4]>> # <<1, 0>>
         \/ <<flash[7], flash[8]>> # <<512, 0>>
         \/ <<flash[5], flash[6]>> # calculate_crc32(DataOfBlock(flash))) =>
       /\ pmret' = [op |-> "init", ret |-> 0]
       /\ g_initialized'
       /\ GetU16(g_paramData', OFF_TRACK_VOLTAGE) = 15000
       /\ GetU16(g_paramData', OFF_TRACK_CURRENT_LIMIT) = 3000
       /\ GetU16(g_paramData', OFF_SHORT_CIRCUIT) = 5000
       /\ GetU8(g_paramData', OFF_PREAMBLE_BITS) = 17
       /\ GetU8(g_paramData', OFF_BIT1_DURATION) = 58
       /\ GetU8(g_paramData', OFF_BIT0_DURATION) = 100
       /\ GetU8(g_paramData', OFF_BIDI_ENABLE) = 0
       /\ GetU8(g_paramData', OFF_TRIGGER_FIRST_BIT) = 0
       /\ GetU16(g_paramData', OFF_BIDI_DAC) = 466]_vars

\* init(0) has run on a sector holding a block with the right magic that
\* fails a later check, and the defaults are in use
C12_Witness ==
  /\ pmret = [op |-> "init", ret |-> 0]
  /\ g_initialized
  /\ g_modified
  /\ g_paramData = DefaultData
  /\ g_flashStorage = flash
  /\ BlockMagic(flash) = MAGIC_NUMBER
  /\ ~BlockValid(flash)

ExactEntries(t, method) ==
  {i \in 1 .. Len(t) : t[i].name # nullptr /\ method = <<t[i].name>>}

ExpectedError(t, request) ==
  IF ~request.accept THEN "Invalid JSON"
  ELSE IF ~request.has_method \/ ~request.has_params THEN "Malformed request"
  ELSE IF ~request.method_is_string THEN "Method must be string"
  ELSE IF ExactEntries(t, request.method) = {} THEN "Unknown method"
  ELSE nullptr

C14_DispatchOrder ==
  [][(rpcpc = "handle" /\ rpcpc' # "handle") =>
       IF ExpectedError(table, rpcReq) # nullptr
       THEN /\ rpcpc' = "write"
            /\ rpcResp' = error_response(ExpectedError(table, rpcReq))
            /\ rpcLog' = rpcLog
       ELSE /\ Len(rpcLog') > Len(rpcLog)
            /\ rpcLog'[Len(rpcLog) + 1] =
                 LogEvent("invoke", rpcReq.id,
                          table[CHOOSE i \in ExactEntries(table, rpcReq.method) :
                                  TRUE].handler)
            /\ \A i \in Len(rpcLog) + 2 .. Len(rpcLog') :
                 rpcLog'[i].ev # "invoke"]_vars

(***************************************************************************)
(* C15: every request delivered to the dispatcher results in exactly one   *)
(* response written to the transport, an object whose status is "ok" or    *)
(* "error" and which carries a message whenever status is "error".  Stated *)
(* at the points where the task is not in the middle of a request.         *)
(***************************************************************************)
WellFormedResponse(resp) ==
  /\ resp.status \in {"ok", "error"}
  /\ resp.status = "error" => resp.message # ""

C15_OneResponsePerRequest ==
  rpcpc \notin {"handle", "write"} =>
    /\ \A i \in Events("request") :
         Cardinality({j \in Events("response") :
                        rpcLog[j].id = rpcLog[i].id}) = 1
    /\ \A j \in Events("response") : WellFormedResponse(rpcLog[j].what)

(***************************************************************************)
(* C16: register_method(name, handler) with a name already in the table    *)
(* overwrites that entry's handler, returns true and leaves the count      *)
(* unchanged in every table state, a full table included; a later lookup   *)
(* of that name returns the new handler.                                   *)
(***************************************************************************)
AllRegNames ==
  {"echo", "system_reboot"} \cup {UserNames[k] : k \in 1 .. Len(UserNames)}

C16_OverwriteAlways ==
  [][\A name \in AllRegNames : \A handler \in RegHandlers \ {nullptr} :
       (RpcServer_register_method(name, handler)
          /\ FirstMatch(table, name, 1) # 0) =>
         /\ regret'
         /\ Len(table') = Len(table)
         /\ find(table', name) = handler]_vars

(***************************************************************************)
(* C17: for a system_reboot request the "ok" response is written to the    *)
(* transport before the system reset is triggered.                         *)
(***************************************************************************)
C17_RespondThenReset ==
  \A i \in Events("reset") :
    \E j \in Events("response") :
      /\ j < i
      /\ rpcLog[j].id = rpcLog[i].id
      /\ rpcLog[j].what.status = "ok"

(***************************************************************************)
(* C18: after command_station_stop followed by command_station_start the   *)
(* timing engine is initialised with the TimingConfig values (preamble     *)
(* bits, bit1 duration, bit0 duration, bidi enable, bidi DAC,              *)
(* trigger_first_bit) held in the RAM shadow at the time of the start,     *)
(* including every change made since the previous start.  Every pass of    *)
(* the controller task through its start sequence reads the six values     *)
(* from the shadow as it is then, and hands exactly these to the engine.   *)
(***************************************************************************)
StoppedBefore ==
  \E i \in 1 .. Len(callLog) : callLog[i].op = "stop" /\ callLog[i].ret

C18_RestartRereads ==
  [][/\ (StoppedBefore /\ tpc = "load" /\ tpc' = "init") =>
          /\ tlocal' = [preamble_bits |-> TimingConfig.preamble_bits,
                        bit1_duration |-> TimingConfig.bit1_duration,
                        bit0_duration |-> TimingConfig.bit0_duration,
                        bidi |-> TimingConfig.bidi_enable]
          /\ dac_value' = TimingConfig.bidi_dac
          /\ trigger_first_bit' = TimingConfig.trigger_first_bit
     /\ (StoppedBefore /\ tpc = "init" /\ tpc' = "select") =>
          /\ engineCfg' = [num_preamble |-> tlocal.preamble_bits,
                           bit1_duration |-> tlocal.bit1_duration,
                           bit0_duration |-> tlocal.bit0_duration,
                           bidi |-> tlocal.bidi # 0]
          /\ dac_value' = dac_value
          /\ trigger_first_bit' = trigger_first_bit
          /\ engFrame' = <<>>]_vars

\* A restart that picked up values written after the first start.
C18_Witness ==
  /\ Len(callLog) = 3
  /\ callLog[1].op = "start" /\ callLog[1].ret
  /\ callLog[2].op = "stop" /\ callLog[2].ret
  /\ callLog[3].op = "start" /\ callLog[3].ret
  /\ tpc = "loop0"
  /\ commandStationRunning
  /\ engineCfg = [num_preamble |-> 20, bit1_duration |-> 60,
                  bit0_duration |-> 110, bidi |-> TRUE]
  /\ dac_value = 500
  /\ trigger_first_bit = 1

(***************************************************************************)
(* C19: command_station_params changes made while the command station is   *)
(* running take effect on the emitted waveform at the next inter-packet    *)
(* boundary.  Every packet the interrupt handler begins is framed with the *)
(* preamble length, and its first half-bit timed with the bit1 duration,   *)
(* that the RAM shadow holds at that boundary.                             *)
(***************************************************************************)
RECURSIVE LeadingOnes(_)
LeadingOnes(bits) ==
  IF Len(bits) = 0 \/ Head(bits) # 1 THEN 0 ELSE 1 + LeadingOnes(Tail(bits))

C19_ChangesApplyAtBoundary ==
  [][(TIM2_IRQHandler /\ engHalf = 2 * Len(engFrame)) =>
       /\ LeadingOnes(engFrame') = TimingConfig.preamble_bits
       /\ isrNominal' = TimingConfig.bit1_duration]_vars

(***************************************************************************)
(* C20: the TimingConfig invariants are enforced at every activation: a    *)
(* configuration whose num_preamble is below 14 is never passed to the     *)
(* timing engine or used by the ISR.                                       *)
(***************************************************************************)
MinPreambleBits == 14

C20_PreambleEnforced ==
  /\ timIT => engineCfg.num_preamble >= MinPreambleBits
  /\ Len(engFrame) > 0 => LeadingOnes(engFrame) >= MinPreambleBits

(***************************************************************************)
(* C21: the OverrideMap is RAM-only: its values are never loaded from the  *)
(* parameter store, in particular not when the command station is started. *)
(* Every step that changes the mask or a delta is one of the three set     *)
(* calls of command_station.h.                                             *)
(***************************************************************************)
OverrideMap == <<zerobitOverrideMask, zerobitDeltaP, zerobitDeltaN>>

C21_OverrideRamOnly ==
  [][OverrideMap' # OverrideMap =>
       \/ \E m \in OverrideMasks : CommandStation_SetZerobitOverrideMask("rpc", m)
       \/ \E d \in OverrideDeltas : CommandStation_SetZerobitDeltaP("rpc", d)
       \/ \E d \in OverrideDeltas : CommandStation_SetZerobitDeltaN("rpc", d)]_vars

(***************************************************************************)
(* C22: with the command station running in loop mode 0 and a packet       *)
(* loaded, each command_station_transmit_packet{count:n} that returns ok   *)
(* causes exactly n copies of the loaded packet to be handed to the timing *)
(* engine.  PendingCopies is the number of copies the controller task will *)
(* still hand over if no further request arrives; an accepted request for  *)
(* n copies adds n to it.                                                  *)
(***************************************************************************)
PendingCopies ==
  IF customPacketTrigger /\ customPacketLoaded
  THEN IF tpc = "burst"
       THEN IF customPacketCount > loopStep
            THEN customPacketCount - loopStep ELSE 0
       ELSE customPacketCount
  ELSE 0

C22_ExactlyNCopies ==
  [][\A n \in 1 .. MaxCount :
       (/\ CommandStation_TriggerTransmit("rpc", n, 100)
        /\ commandStationRunning /\ commandStationLoop = 0
        /\ customPacketLoaded) =>
         PendingCopies' = PendingCopies + n]_vars

(***************************************************************************)
(* C23: in custom-packet mode, when the bounded packet queue is full at    *)
(* the moment a custom packet is submitted, the packet is not silently     *)
(* lost.  The transmit request has been answered before the controller     *)
(* task submits the packet, and the task has no channel back to the        *)
(* caller, so the packet must be in the queue after the submission.        *)
(***************************************************************************)
C23_NoSilentDrop ==
  [][(Thread_Burst /\ loopStep < customPacketCount) =>
       (Len(txq') = Len(txq) + 1 /\ txq'[Len(txq')] = customPacket)]_vars

(***************************************************************************)
(* C24: when the command station is stopped, both track outputs are driven *)
(* inactive (trackOutputs(false, false)) before the timer is disabled.     *)
(***************************************************************************)
C24_SafeOutputsBeforeTimerOff ==
  [][(timPWM /\ ~timPWM') => (~trackN /\ ~trackP)]_vars

(***************************************************************************)
(* C30: once CommandStation_Stop has cleared the running flag, the         *)
(* controller task hands no further packet to the timing engine: it leaves *)
(* its test loop or its custom-packet burst at its next yield point.       *)
(* Between two steps of a loop the task is inside the osDelay that follows *)
(* each packet, so a packet handed over in a state where the flag is clear *)
(* is one handed over after a yield point that followed the stop.  (The    *)
(* first packet of an iteration, loopStep = 0, follows the test of the     *)
(* flag without a yield and is not counted.)                               *)
(***************************************************************************)
HandsPacket ==
  \/ Thread_Loop12 /\ loopStep # 0
  \/ Thread_Loop3 /\ loopStep # 0 /\ commandStationRunning
  \/ Thread_Burst /\ 0 < loopStep /\ loopStep < customPacketCount

C30_NoPacketAfterStop ==
  [][~commandStationRunning => ~HandsPacket]_vars

(***************************************************************************)
(* C25.  Framing of the request stream.                                    *)
(***************************************************************************)
\* the complete lines of a byte stream, split at each first CR LF pair
RECURSIVE LinesFrom(_, _, _)
LinesFrom(s, from, i) ==
  IF i > Len(s)
    THEN <<>>
    ELSE IF i > from /\ s[i - 1] = CR /\ s[i] = LF
           THEN <<SubSeq(s, from, i - 2)>> \o LinesFrom(s, i + 1, i + 1)
           ELSE LinesFrom(s, from, i + 1)

RequestLines == LinesFrom(usb.sent, 1, 1)

\* C25: every line the host has terminated with CR LF is either still
\* queued or has been handed to the dispatcher, and what was handed over is
\* the lines in arrival order, each once and without its terminator,
\* however the bytes were split across reads.
C25_FramedExactlyOnce ==
  /\ Len(usb.delivered) + Len(usb.rpc_rxqueue) = Len(RequestLines)
  /\ usb.delivered = SubSeq(RequestLines, 1, Len(usb.delivered))

(***************************************************************************)
(* C26.  ADC mutex timeout.                                                *)
(***************************************************************************)
\* the call of task c leaves osMutexAcquire without owning adc_mutex
AcquireFailed(c) ==
  adc.pc[c] = "acquire" /\ adc'.pc[c] # "acquire" /\ adc'.owner # c

\* C26: when adc_mutex cannot be acquired, analog_manager_get_value returns
\* -1, no conversion takes place and the caller's value is not written; the
\* RPC feedback handler that sees the failure answers with an error response.
C26_TimeoutIsError ==
  [][/\ \A c \in Callers :
          AcquireFailed(c) =>
            /\ adc'.ret[c] = -1
            /\ adc'.value[c] = adc.value[c]
            /\ adc'.dr = adc.dr
            /\ adc'.owner = adc.owner
     /\ (adc.pc["rpc"] = "return" /\ adc.ret["rpc"] # 0 /\ adc'.pc["rpc"] = "idle")
          => /\ adc'.resp.status = "error"
             /\ adc'.resp.message = "Failed to read " \o adc.what["rpc"] \o " feedback"]_vars

\* a feedback request has been answered with an error after a timeout,
\* while the other task still holds the mutex
C26_Witness ==
  /\ adc.pc["rpc"] = "idle"
  /\ adc.ret["rpc"] = -1
  /\ adc.value["rpc"] = 0
  /\ adc.resp.status = "error"
  /\ adc.owner = "cli"

(***************************************************************************)
(* C27.  decoder_start / decoder_stop against the decoder's state.         *)
(***************************************************************************)
DecoderState == <<dec.decoderRunning, dec.semCount, dec.tpc, dec.timIT>>

\* C27: decoder_start on a running decoder, and decoder_stop on a decoder
\* that is not running, are answered with an error response and leave the
\* decoder as it was.
C27_DecoderStartStopErrors ==
  [][/\ (decoder_start_handler /\ dec.decoderRunning)
          => (dec'.resp.status = "error" /\ DecoderState' = DecoderState)
     /\ (decoder_stop_handler_Call /\ ~dec.decoderRunning)
          => (dec'.resp.status = "error" /\ DecoderState' = DecoderState)]_vars

(***************************************************************************)
(* C28.  command_station_start with a loop value outside 0..3.             *)
(***************************************************************************)
\* C28: a command_station_start request whose loop is an integer outside
\* 0..3 is answered with an error response; the call does not enter
\* CommandStation_Start's starting branch and the loop selector keeps its
\* value.
C28_LoopRangeRejected ==
  [][\A p \in LoopParams :
       (/\ command_station_start_handler(p)
        /\ p.type \in {"unsigned", "integer"}
        /\ p.v \notin 0 .. 3)
       => /\ rpcResp'.status = "error"
          /\ cpc' = cpc
          /\ carg' = carg
          /\ commandStationLoop' = commandStationLoop
          /\ semCount' = semCount
          /\ BR_ENABLE' = BR_ENABLE]_vars

(***************************************************************************)
(* C29.  The parameter manager under concurrent calls.                     *)
(***************************************************************************)
\* C29: with save(), restore() and the setters called from different tasks,
\* a save() that returns 0 leaves a block in flash that passes the checks
\* of restore(), and a restore() that returns 0 leaves the RAM shadow equal
\* to the data of the block in flash.
C29_ThreadSafe ==
  [][/\ (pmpc = "program" /\ pmpc' = "idle" /\ pmret' = [op |-> "save", ret |-> 0])
          => BlockValid(flash')
     /\ (pmret' # pmret /\ pmret' = [op |-> "restore", ret |-> 0])
          => g_paramData' = DataOfBlock(flash')]_vars

(***************************************************************************)
(* C31..C33.  The start semaphore between Start, Stop and the task.        *)
(***************************************************************************)
\* positions of CommandStationThread between its acquire and its teardown
RunPcs == {"load", "init", "select", "loop0", "burst", "loop1", "loop2",
           "loop3", "teardown"}

\* C31: at the moment the osSemaphoreAcquire of a CommandStation_Stop that
\* found the station running succeeds, the controller task has executed its
\* teardown: the timer PWM is stopped and the update interrupt disabled.
C31_StopWaitsForTeardown ==
  [][\A c \in Callers :
       (cpc[c] \in {"stop_acquire", "stop_blocked"} /\ cpc'[c] = "stop_finish")
       => (~timPWM' /\ ~timIT')]_vars

\* C32: the count of the start semaphore never exceeds 1, and no token stays
\* in the semaphore while the controller task is inside a run (a token left
\* there lets the task begin its next run without a new Start).
C32_NoRetainedToken ==
  /\ semCount <= 1
  /\ tpc \in RunPcs => semCount = 0

\* C33: every CommandStation_Stop that found the station running returns.
C33_StopTerminates ==
  \A c \in Callers : (cpc[c] = "stop_clear") ~> (cpc[c] = "idle")

(***************************************************************************)
(* C34.  Bridge drive against BiDi receiver enable.                        *)
(***************************************************************************)
\* C34: BR_ENABLE and BIDIR_EN are never high at the same time.
C34_BridgeXorBiDi == ~(BR_ENABLE /\ BIDIR_EN)

(***************************************************************************)
(* C35: every custom packet the controller task hands to the timing        *)
(* engine is, byte for byte, a packet that one completed load request      *)
(* loaded; a load arriving during a transmission never causes a partly     *)
(* rewritten or empty packet to be sent.                                   *)
(***************************************************************************)
C35_OnlyLoadedPacketsSent ==
  [][(Thread_Burst /\ loopStep < customPacketCount)
       => customPacket \in CustomPackets]_vars

(***************************************************************************)
(* C36: a command_station_params request answered with an error response   *)
(* leaves every TimingConfig field of the RAM shadow as it was before the   *)
(* request; the fields listed before the invalid one are not applied.       *)
(***************************************************************************)
C36_ErrorLeavesShadow ==
  [][\A req \in ParamRequests :
       (command_station_params_handler_Checked(req)
          /\ rpcResp'.status = "error") => g_paramData' = g_paramData]_vars

(***************************************************************************)
(* C37: command_station_transmit_packet answers ok only when the custom-   *)
(* packet slot has been armed, that is when a packet is loaded; with no    *)
(* packet loaded it answers with an error and arms nothing.                *)
(***************************************************************************)
C37_OkOnlyWhenArmed ==
  [][\A p \in TransmitParams :
       command_station_transmit_packet_Call(p) =>
         /\ rpcResp'.status = "ok" => (customPacketLoaded /\ customPacketTrigger')
         /\ ~customPacketLoaded =>
              (rpcResp'.status = "error"
                 /\ customPacketTrigger' = customPacketTrigger)]_vars

(***************************************************************************)
(* C38: for any byte stream the RX write index stays below the buffer size *)
(* and no byte is written outside a receive buffer, also when a line       *)
(* longer than the buffer arrives and when leftover bytes are carried into *)
(* the next buffer.  The data of a buffer extends to the highest index the *)
(* read, the terminator, the CR LF strip or the memcpy has written.        *)
(***************************************************************************)
C38_RxWithinBuffer ==
  /\ usb.rx_index < RX_BUFFER_SIZE
  /\ \A b \in 0 .. RX_POOL_SIZE - 1 :
       Len(usb.buffer_pool[b].data) <= RX_BUFFER_SIZE

\* a run of RX_BUFFER_SIZE - 1 bytes without CR LF has filled the buffer to
\* its last slot and the overflow protection has reset the index
C38_Witness ==
  /\ Len(usb.sent) = RX_BUFFER_SIZE - 1
  /\ RequestLines = <<>>
  /\ usb.rx_index = 0
  /\ Len(usb.buffer_pool[usb.current_buf].data) = RX_BUFFER_SIZE

(***************************************************************************)
(* C39: a receive buffer whose pointer is queued for the RPC server is not *)
(* overwritten or reused by the RX thread until the server has read that   *)
(* request, at any arrival rate: the buffer the RX thread reads into and   *)
(* copies leftover bytes into is never one whose pointer is in rpc_rxqueue. *)
(***************************************************************************)
C39_QueuedBufferNotReused ==
  \A k \in 1 .. Len(usb.rpc_rxqueue) : usb.rpc_rxqueue[k] # usb.current_buf

(***************************************************************************)
(* C40: after RPC server startup every method of the documented method    *)
(* set is registered and found by lookup, no registration was rejected for *)
(* lack of capacity, and the entry count never exceeds the fixed capacity, *)
(* which is at most 32.                                                    *)
(***************************************************************************)
\* the method table of the RPC dispatcher section of the specification
DocumentedMethods ==
  { "echo", "command_station_start", "command_station_stop",
    "command_station_load_packet", "command_station_transmit_packet",
    "command_station_params", "command_station_get_params",
    "command_station_packet_override",
    "command_station_packet_reset_override", "decoder_start", "decoder_stop",
    "parameters_save", "parameters_restore", "parameters_factory_reset",
    "get_voltage_feedback_mv", "get_current_feedback_ma", "get_gpio_input",
    "get_gpio_inputs", "configure_gpio_output", "set_gpio_output",
    "get_rtc_datetime", "set_rtc_datetime", "system_reboot" }

C40_AllMethodsRegistered ==
  /\ Len(table) <= kMaxMethods
  /\ kMaxMethods <= 32
  /\ rpcpc # "start" =>
       /\ regret = TRUE
       /\ Len(table) = Len(BootMethods)
       /\ \A m \in DocumentedMethods : find(table, m) = HandlerOf(m)

\* the server has started and has answered a request of a registered method
C40_Witness ==
  /\ rpcpc # "start"
  /\ Len(table) = Len(BootMethods)
  /\ rpcResp.status = "ok"

====
